---------------------------- MODULE Spec2Model ----------------------------
(***************************************************************************)
(* A model of pg_track_optimizer's shared fingerprint store                *)
(* (src/pg_track_optimizer.c): the per-process attach protocol, the        *)
(* first-attach initialisation with the load of the statistics file,       *)
(* store_data (the upsert at executor end), the scan, the reset, the flush *)
(* to disk and the before-shmem-exit hook.                                 *)
(*                                                                         *)
(* Backends are processes 1..NProcs.  A step of the model is one piece of  *)
(* a handler between two points at which another backend can observe or    *)
(* change the shared state: a lock acquisition together with the code that *)
(* follows it under that lock, an access to one of the two atomics, a      *)
(* piece of file I/O.                                                      *)
(***************************************************************************)
EXTENDS Integers, Sequences, FiniteSets, TLC

(* ------------------------------ bounds -------------------------------- *)
NProcs == 2        \* backends
NKeys == 3         \* distinct non-zero queryIds an execution can carry
NParts == 2        \* partitions of the dshash table
NTexts == 1        \* distinct source texts
MaxExecs == 2      \* executions folded into one entry before the model stops
CounterBits == 3   \* width of the model's uint32
hash_mem == 1      \* the pg_track_optimizer.hash_mem setting, in KB
MaxNodes == 4      \* nodes of a plan state tree
MaxPlanNodes == 2  \* nodes of a plan state tree whose nodes take every input
MaxAdds == 5       \* values folded into one RStats
MaxValue == 5      \* the largest value folded into an RStats
TextDigits == 3    \* significant digits of a number in the text form (15 in "%.15g")

(* -------------------------- program constants ------------------------- *)
DATA_FILE_HEADER == 12354678
DATA_FORMAT_VERSION == 20260118
EntrySize == 480   \* sizeof(DSMOptimizerTrackerEntry): 16 + 8 + 11*40 + 8 + 8

Procs == 1..NProcs
QueryIds == 1..NKeys
Parts == 0..(NParts - 1)
Texts == 1..NTexts
U32 == 2 ^ CounterBits
UINT32_MAX == U32 - 1
MyDatabaseId == 1
InvalidOid == 0
TRACK_MODES == {"normal", "forced", "disabled"}
DATA_PG_VERSION_STR == "host"
OTHER_PG_VERSION_STR == "other host"

VARIABLES
    registered,     \* the DSM registry holds the "pg_track_optimizer" segment
    reglock,        \* holder of the DSM registry entry's lock (0: free)
    htab,           \* the shared table: queryId -> entry, for the present keys
    htab_counter,   \* shared->htab_counter, a uint32
    need_syncing,   \* shared->need_syncing
    dsa_live,       \* live query-text allocations of the shared arena
    lock,           \* holder of shared->lock in exclusive mode (0: free)
    plock,          \* the table's partition locks
    file,           \* PG_STAT_TMP_DIR/pg_track_optimizer.stat
    tmp,            \* PG_STAT_TMP_DIR/pg_track_optimizer.tmp
    local,          \* each backend's static pointers shared, htab_dsa, htab
    pc,             \* each backend's position
    op,             \* the entry point a backend is in
    ctx,            \* store_data's arguments
    part,           \* the partition a backend's dshash_seq_status is in
    cnt,            \* a handler's local variable counter
    res             \* how a backend's handler ended, until it returns

vars == <<registered, reglock, htab, htab_counter, need_syncing, dsa_live, lock,
          plock, file, tmp, local, pc, op, ctx, part, cnt, res>>

shmem == <<registered, htab, htab_counter, need_syncing, dsa_live>>
disk == <<file, tmp>>

(* ------------------------------- data --------------------------------- *)

\* hashtable_elements_max(): hash_mem KB over the size of an entry.
hashtable_elements_max == (hash_mem * 1024) \div EntrySize

\* TODSMRegistry.htab_counter is a pg_atomic_uint32.
U32Add(x, d) == (x + d) % U32

\* dshash maps a key to one of its partitions by the key's hash.
PartOf(k) == k % NParts

KeysIn(t, i) == {k \in DOMAIN t : PartOf(k) = i}

\* An entry whose query_ptr is not a valid allocation has query = 0.
DsaPointerIsValid(e) == e.query # 0

\* rstats_set_empty(): the canonical empty RStats.  Of the five fields the
\* count and the two bounds are kept.
rstats_set_empty == [count |-> 0, min |-> 0, max |-> 0]

\* rstats_is_empty()'s ereport(ERROR): count is 0 and another field is not.
RStatsCorrupted(r) == r.count = 0 /\ (r.min # 0 \/ r.max # 0)

\* rstats_add_value(): the first value initialises an empty RStats, a
\* later one is counted and moves the bounds.
rstats_add_value(r, v) ==
    IF r.count = 0
    THEN [count |-> 1, min |-> v, max |-> v]
    ELSE [count |-> r.count + 1,
          min |-> IF v < r.min THEN v ELSE r.min,
          max |-> IF v > r.max THEN v ELSE r.max]

RECURSIVE Folded(_, _)
\* An RStats that took the value v n times.
Folded(n, v) == IF n = 0 THEN rstats_set_empty ELSE rstats_add_value(Folded(n - 1, v), v)

EmptyTab == [k \in {} |-> 0]
NoFile == [exists |-> FALSE]
NoCtx == [queryId |-> 0]
NoLocal == [shared |-> FALSE, htab_dsa |-> FALSE, htab |-> FALSE]
FreeLock == [excl |-> 0, shared |-> {}]

RECURSIVE SetToSeq(_)
\* The keys of S in the order dshash_seq_next returns them.
SetToSeq(S) ==
    IF S = {} THEN <<>>
    ELSE LET m == CHOOSE x \in S : \A y \in S : x <= y
         IN  <<m>> \o SetToSeq(S \ {m})

\* The bytes FileWrite puts out for one entry: the raw entry, then the text.
DiskRecord(k, e) ==
    [dbOid |-> MyDatabaseId, queryId |-> k, nexecs |-> e.nexecs, query |-> e.query,
     avg_error |-> e.avg_error, exec_time |-> e.exec_time]

\* The entry _load_hash_table() builds from a record of the file.
EntryOf(r) ==
    [nexecs |-> r.nexecs, query |-> r.query,
     avg_error |-> r.avg_error, exec_time |-> r.exec_time]

\* The CRC32C of a file's bytes from the magic through the record count,
\* modelled as a collision-free digest of those bytes.
Crc32c(f) == <<f.magic, f.fmtver, f.verstr, f.recs, f.nrecs>>

\* The items of a complete file: magic, version, host string, the records,
\* the EOF marker entry, the record count, the checksum.
FileItems(f) == Len(f.recs) + 6

\* The server before any backend has attached: no segment, no backend state.
InitServer ==
    /\ registered = FALSE
    /\ reglock = 0
    /\ htab = EmptyTab
    /\ htab_counter = 0
    /\ need_syncing = 0
    /\ dsa_live = 0
    /\ lock = 0
    /\ plock = [i \in Parts |-> FreeLock]
    /\ local = [p \in Procs |-> NoLocal]
    /\ pc = [p \in Procs |-> "idle"]
    /\ op = [p \in Procs |-> "none"]
    /\ ctx = [p \in Procs |-> NoCtx]
    /\ part = [p \in Procs |-> -1]
    /\ cnt = [p \in Procs |-> 0]
    /\ res = [p \in Procs |-> "none"]

\* A first start: neither file exists.
Init ==
    /\ InitServer
    /\ file = NoFile
    /\ tmp = NoFile

(* ------------------------- LWLock, dshash ----------------------------- *)

CanLockExcl(i) == plock[i].excl = 0 /\ plock[i].shared = {}
CanLockShared(i) == plock[i].excl = 0

\* LWLockReleaseAll(): what an ERROR's abort does to the locks p holds.
ReleasedBy(p) ==
    [i \in Parts |-> [excl |-> IF plock[i].excl = p THEN 0 ELSE plock[i].excl,
                      shared |-> plock[i].shared \ {p}]]

\* dshash_seq_next() moving to partition i: lock it, then release the
\* partition the scan was in.
SeqMove(p, i, exclusive) ==
    [j \in Parts |->
        IF j = i
        THEN IF exclusive THEN [excl |-> p, shared |-> {}]
             ELSE [excl |-> plock[j].excl, shared |-> plock[j].shared \cup {p}]
        ELSE [excl |-> IF plock[j].excl = p THEN 0 ELSE plock[j].excl,
              shared |-> plock[j].shared \ {p}]]

SeqCanMove(i, exclusive) ==
    IF exclusive THEN CanLockExcl(i) ELSE CanLockShared(i)

Remove(t, k) == [x \in DOMAIN t \ {k} |-> t[x]]
Put(t, k, e) == [x \in DOMAIN t \cup {k} |-> IF x = k THEN e ELSE t[x]]

Idle(p) ==
    /\ pc' = [pc EXCEPT ![p] = "idle"]
    /\ op' = [op EXCEPT ![p] = "none"]
    /\ ctx' = [ctx EXCEPT ![p] = NoCtx]
    /\ part' = [part EXCEPT ![p] = -1]
    /\ cnt' = [cnt EXCEPT ![p] = 0]
    /\ res' = [res EXCEPT ![p] = "none"]

(* --------------------------- environments ----------------------------- *)

\* What a specification lets the world do: the queryIds executions carry
\* (ids), how dsa_allocate0() can end (alloc: FALSE is out of memory), how a
\* piece of file I/O can end (io), the source texts of the statements
\* (texts).
\* An execution as track_ExecutorEnd() meets it: the two settings, the
\* error plan_error() computes and the executor's total time in seconds.
ForcedExec ==
    [track_mode |-> "forced", log_min_error |-> -1, avg_error |-> 2, total |-> 1,
     running |-> TRUE, nloops |-> 0]

\* The exits of a backend as pto_before_shmem_exit() meets them: the exit
\* code and the session's auto_flush.
Exits == [code : {0, 1}, auto_flush : BOOLEAN]

Env(ids, alloc, io) ==
    [ids |-> ids, alloc |-> alloc, io |-> io,
     execs |-> {ForcedExec}, exits |-> Exits, texts |-> Texts]

\* The entry of a key after n executions like ForcedExec.
Stored(n, text) ==
    [nexecs |-> n, query |-> text,
     avg_error |-> Folded(n, ForcedExec.avg_error),
     exec_time |-> Folded(n, ForcedExec.total)]

(* ----------------------- attach, init, restore ------------------------ *)

\* recreate_htab() as it would be if it republished the old handles: the
\* atomics are zeroed, the table and the arena are the ones that were there.
recreate_htab_old_handles ==
    /\ htab' = htab
    /\ dsa_live' = dsa_live
    /\ htab_counter' = 0
    /\ need_syncing' = 0

\* recreate_htab(): a fresh arena and a fresh, empty table, whose handles and
\* zeroed atomics are published in the segment.
recreate_htab ==
    /\ htab' = EmptyTab
    /\ dsa_live' = 0
    /\ htab_counter' = 0
    /\ need_syncing' = 0

\* track_attach_shmem() as it would be if GetNamedDSMSegment() did not hold
\* the registry entry's lock over the init callback.
track_attach_shmem_unlocked(p) ==
    /\ pc[p] = "idle"
    /\ ~local[p].htab
    /\ IF registered
       THEN /\ local' = [local EXCEPT ![p] =
                            [shared |-> TRUE, htab_dsa |-> TRUE, htab |-> TRUE]]
            /\ UNCHANGED <<registered, reglock, htab, htab_counter, need_syncing,
                           dsa_live, lock, plock, pc, op, cnt>>
       ELSE /\ registered' = TRUE
            /\ reglock' = p
            /\ lock' = 0
            /\ plock' = [i \in Parts |-> FreeLock]
            /\ htab' = EmptyTab
            /\ dsa_live' = 0
            /\ htab_counter' = 0
            /\ need_syncing' = 0
            /\ local' = [local EXCEPT ![p] =
                            [shared |-> FALSE, htab_dsa |-> TRUE, htab |-> TRUE]]
            /\ pc' = [pc EXCEPT ![p] = "load"]
            /\ op' = [op EXCEPT ![p] = "init"]
            /\ cnt' = [cnt EXCEPT ![p] = 0]
    /\ UNCHANGED <<disk, ctx, part, res>>

\* track_attach_shmem(): GetNamedDSMSegment() under the registry entry's
\* lock.  The backend that creates the segment runs to_init_shmem() and
\* keeps the lock until _load_hash_table_safe() is over; any other one
\* attaches to the published handles.
track_attach_shmem(p) ==
    /\ pc[p] = "idle"
    /\ ~local[p].htab
    /\ reglock = 0
    /\ IF registered
       THEN /\ local' = [local EXCEPT ![p] =
                            [shared |-> TRUE, htab_dsa |-> TRUE, htab |-> TRUE]]
            /\ UNCHANGED <<registered, reglock, htab, htab_counter, need_syncing,
                           dsa_live, lock, plock, pc, op, cnt>>
       ELSE /\ registered' = TRUE
            /\ reglock' = p
            /\ lock' = 0
            /\ plock' = [i \in Parts |-> FreeLock]
            /\ htab' = EmptyTab
            /\ dsa_live' = 0
            /\ htab_counter' = 0
            /\ need_syncing' = 0
            /\ local' = [local EXCEPT ![p] =
                            [shared |-> FALSE, htab_dsa |-> TRUE, htab |-> TRUE]]
            /\ pc' = [pc EXCEPT ![p] = "load"]
            /\ op' = [op EXCEPT ![p] = "init"]
            /\ cnt' = [cnt EXCEPT ![p] = 0]
    /\ UNCHANGED <<disk, ctx, part, res>>

\* How _load_hash_table() leaves its header part: "error" is an
\* ereport(ERROR), "skipped" the host-version WARNING's goto end.
LoadHeader(f, io) ==
    IF ~io THEN "error"                              \* open failed, not ENOENT
    ELSE IF f.len < 1 THEN "error"                   \* read_error
    ELSE IF f.magic # DATA_FILE_HEADER THEN "error"  \* data_header_error
    ELSE IF f.len < 2 THEN "error"
    ELSE IF f.fmtver # DATA_FORMAT_VERSION THEN "error" \* data_version_error
    ELSE IF f.len < 3 THEN "error"
    ELSE IF f.verstr # DATA_PG_VERSION_STR THEN "skipped"
    ELSE "records"

\* _load_hash_table() from its entry to the record loop.
load_open(p, E) ==
    /\ pc[p] = "load"
    /\ \E io \in E.io \cap {"ok", "open"} :
         LET how == IF local[p].shared THEN "unexpected"
                    ELSE IF htab_counter # 0 THEN "error"
                    ELSE IF ~file.exists THEN "nofile"
                    ELSE LoadHeader(file, io = "ok")
         IN  /\ pc' = [pc EXCEPT ![p] =
                         CASE how = "error" -> "load_error"
                           [] how = "records" -> "load_rec"
                           [] OTHER -> "init_ret"]
             /\ res' = [res EXCEPT ![p] = how]
    /\ UNCHANGED <<shmem, reglock, lock, plock, disk, local, op, ctx, part, cnt>>

\* One turn of the record loop as it would be with store_data()'s guard,
\* which lets one record more in.
LoadRecordStep_guard_of_store_data(f, i, loaded, t, alloc) ==
    IF f.len < 3 + i THEN "error"
    ELSE IF i > Len(f.recs) THEN "eof"
    ELSE LET r == f.recs[i] IN
         IF r.queryId = 0 /\ r.dbOid = InvalidOid THEN "eof"
         ELSE IF r.queryId = 0 \/ r.dbOid = InvalidOid THEN "error"
         ELSE IF loaded = UINT32_MAX \/ loaded > hashtable_elements_max THEN "error"
         ELSE IF ~alloc THEN "error"
         ELSE IF r.queryId \in DOMAIN t THEN "error"
         ELSE "insert"

\* How one turn of the record loop ends for the item at index 3 + i.
LoadRecordStep(f, i, loaded, t, alloc) ==
    IF f.len < 3 + i THEN "error"                    \* short read
    ELSE IF i > Len(f.recs) THEN "eof"               \* the EOF marker entry
    ELSE LET r == f.recs[i] IN
         IF r.queryId = 0 /\ r.dbOid = InvalidOid THEN "eof"
         ELSE IF r.queryId = 0 \/ r.dbOid = InvalidOid THEN "error"
         ELSE IF loaded >= hashtable_elements_max THEN "error"
         ELSE IF ~alloc THEN "error"                 \* dsa_allocate0: out of memory
         ELSE IF r.queryId \in DOMAIN t THEN "error" \* duplicate record
         ELSE "insert"

\* One turn of _load_hash_table()'s record loop.
load_record(p, E) ==
    /\ pc[p] = "load_rec"
    /\ \E alloc \in E.alloc :
         LET i == cnt[p] + 1
             how == LoadRecordStep(file, i, cnt[p], htab, alloc)
         IN  CASE how = "insert" ->
                    /\ htab' = Put(htab, file.recs[i].queryId, EntryOf(file.recs[i]))
                    /\ dsa_live' = dsa_live + 1
                    /\ cnt' = [cnt EXCEPT ![p] = i]
                    /\ UNCHANGED <<pc, res>>
               [] how = "eof" ->
                    /\ pc' = [pc EXCEPT ![p] = "load_tail"]
                    /\ UNCHANGED <<htab, dsa_live, cnt, res>>
               [] OTHER ->
                    /\ pc' = [pc EXCEPT ![p] = "load_error"]
                    /\ res' = [res EXCEPT ![p] = "error"]
                    /\ UNCHANGED <<htab, dsa_live, cnt>>
    /\ UNCHANGED <<registered, htab_counter, need_syncing, reglock, lock, plock,
                   disk, local, op, ctx, part>>

\* The end of _load_hash_table() as it would be if a missing checksum went
\* to soft_failed_end like a wrong one.
LoadTrailer_crc_read_soft(f, loaded) ==
    IF f.len < Len(f.recs) + 5 THEN "error"
    ELSE IF loaded # f.nrecs THEN "soft"             \* record count mismatch
    ELSE IF f.len < Len(f.recs) + 6 THEN "soft"
    ELSE IF Crc32c(f) # f.crc THEN "soft"
    ELSE "loaded"

\* How _load_hash_table() ends after the EOF marker: "soft" is the WARNING
\* and goto soft_failed_end of a count or CRC mismatch.
LoadTrailer(f, loaded) ==
    IF f.len < Len(f.recs) + 5 THEN "error"          \* read_error
    ELSE IF loaded # f.nrecs THEN "soft"             \* record count mismatch
    ELSE IF f.len < Len(f.recs) + 6 THEN "error"     \* crc_read_error
    ELSE IF Crc32c(f) # f.crc THEN "soft"
    ELSE "loaded"

\* _load_hash_table() after the record loop.
load_tail(p) ==
    /\ pc[p] = "load_tail"
    /\ LET how == LoadTrailer(file, cnt[p])
       IN  /\ res' = [res EXCEPT ![p] = how]
           /\ CASE how = "loaded" ->
                    /\ htab_counter' = cnt[p]
                    /\ pc' = [pc EXCEPT ![p] = "init_ret"]
                    /\ UNCHANGED <<htab, dsa_live, need_syncing>>
                [] how = "soft" ->
                    /\ recreate_htab
                    /\ pc' = [pc EXCEPT ![p] = "init_ret"]
                [] OTHER ->
                    /\ pc' = [pc EXCEPT ![p] = "load_error"]
                    /\ UNCHANGED <<htab, dsa_live, htab_counter, need_syncing>>
    /\ UNCHANGED <<registered, reglock, lock, plock, disk, local, op, ctx, part, cnt>>

\* _load_hash_table_safe()'s PG_CATCH: rebuild, then rethrow.
load_catch(p) ==
    /\ pc[p] = "load_error"
    /\ recreate_htab
    /\ pc' = [pc EXCEPT ![p] = "init_throw"]
    /\ UNCHANGED <<registered, reglock, lock, plock, disk, local, op, ctx, part,
                   cnt, res>>

\* to_init_shmem() returns: GetNamedDSMSegment() releases the registry lock
\* and track_attach_shmem() assigns shared.
attach_return(p) ==
    /\ pc[p] = "init_ret"
    /\ reglock' = 0
    /\ local' = [local EXCEPT ![p].shared = TRUE]
    /\ Idle(p)
    /\ UNCHANGED <<shmem, lock, plock, disk>>

\* The rethrown ERROR leaves GetNamedDSMSegment(): the abort releases the
\* registry lock, shared was never assigned, htab and htab_dsa keep what
\* recreate_htab() gave them.
attach_abort(p) ==
    /\ pc[p] = "init_throw"
    /\ reglock' = 0
    /\ Idle(p)
    /\ UNCHANGED <<shmem, lock, plock, disk, local>>

(* --------------------------- backend crash ---------------------------- *)

\* A backend that dereferences a NULL or garbage pointer dies on a signal;
\* the postmaster then terminates every backend and reinitialises shared
\* memory.  No exit hook runs and the files stay as they are.
PostmasterReset ==
    /\ registered' = FALSE
    /\ reglock' = 0
    /\ htab' = EmptyTab
    /\ htab_counter' = 0
    /\ need_syncing' = 0
    /\ dsa_live' = 0
    /\ lock' = 0
    /\ plock' = [i \in Parts |-> FreeLock]
    /\ local' = [p \in Procs |-> NoLocal]
    /\ pc' = [p \in Procs |-> "idle"]
    /\ op' = [p \in Procs |-> "none"]
    /\ ctx' = [p \in Procs |-> NoCtx]
    /\ part' = [p \in Procs |-> -1]
    /\ cnt' = [p \in Procs |-> 0]
    /\ res' = [p \in Procs |-> "none"]

(* ------------------------------ status -------------------------------- *)

\* pg_track_optimizer_status() of an attached backend: entries_max -
\* entries_count in uint32 arithmetic, and whether need_syncing is 0.
pg_track_optimizer_status ==
    [free_slots |-> (hashtable_elements_max - htab_counter) % U32,
     is_synced |-> (need_syncing = 0)]

(* ------------------------------ upsert -------------------------------- *)

LogMinErrors == {-1, 1}
AvgErrors == {-1, 0, 2}
Totals == {0, 1}

\* Every execution the settings and the executor can bring about: running
\* and nloops are those of the root node's Instrumentation, total is the
\* executor's total time.  A cursor closed without a fetch never ran its
\* plan: it is neither running nor has it a loop, and its total is 0.
Executions ==
    [track_mode : TRACK_MODES, log_min_error : LogMinErrors,
     avg_error : AvgErrors, total : Totals, running : BOOLEAN,
     nloops : {0, 1}]

\* The test of track_ExecutorEnd() as it would be without the executor's
\* total time.
PlanExecuted_untimed(c) ==
    c.running \/ c.nloops > 0

\* The test of track_ExecutorEnd() that the plan was executed and timed.
PlanExecuted(c) ==
    /\ c.running \/ c.nloops > 0
    /\ c.total > 0

\* track_optimizer_enabled() as it would be without the test for the
\* disabled mode.
track_optimizer_enabled_any_mode(mode, log_min_error) ==
    log_min_error >= 0 \/ mode = "forced"

\* track_optimizer_enabled(), for a plain statement of a regular backend
\* with query ids computed.
track_optimizer_enabled(mode, log_min_error) ==
    /\ log_min_error >= 0 \/ mode = "forced"
    /\ mode # "disabled"

\* Executions of key k that have reached ExecutorEnd and have not left it.
InFlight(k) ==
    Cardinality({q \in Procs : pc[q] \in {"exec_end", "u_find", "u_sync"}
                                  /\ ctx[q].queryId = k})

Execs(k) == IF k \in DOMAIN htab THEN htab[k].nexecs ELSE 0

\* store_data()'s guard on the number of elements.
StoreIsFull(counter) ==
    counter = UINT32_MAX \/ counter > hashtable_elements_max

\* A statement has run in an attached backend and ExecutorEnd is called:
\* the settings of the session, the statement's queryId and text, and what
\* the executor and plan_error() are going to report.
ExecutorRun(p, E) ==
    /\ pc[p] = "idle"
    /\ local[p].htab
    /\ \E x \in E.execs, queryId \in E.ids, text \in E.texts :
         /\ Execs(queryId) + InFlight(queryId) < MaxExecs
         /\ ctx' = [ctx EXCEPT ![p] =
                       [queryId |-> queryId, text |-> text,
                        track_mode |-> x.track_mode,
                        log_min_error |-> x.log_min_error,
                        avg_error |-> x.avg_error, total |-> x.total,
                        running |-> x.running, nloops |-> x.nloops]]
    /\ pc' = [pc EXCEPT ![p] = "exec_end"]
    /\ op' = [op EXCEPT ![p] = "store"]
    /\ UNCHANGED <<shmem, reglock, lock, plock, disk, local, part, cnt, res>>

\* The execution with plan_error()'s context for store_data(): totaltime
\* is the executor's total as it is.
PlanEstimatorContext(c) ==
    [queryId |-> c.queryId, text |-> c.text, track_mode |-> c.track_mode,
     log_min_error |-> c.log_min_error, avg_error |-> c.avg_error,
     total |-> c.total, totaltime |-> c.total]

\* track_ExecutorEnd() as it would be if the capacity guard turned away
\* only the keys that are not in the table.
track_ExecutorEnd_full_for_new_keys(p) ==
    /\ pc[p] = "exec_end"
    /\ LET c == ctx[p]
       IN  IF ~track_optimizer_enabled(c.track_mode, c.log_min_error)
                \/ c.queryId = 0
           THEN Idle(p) /\ UNCHANGED <<shmem, reglock, lock, plock, local>>
           ELSE IF ~PlanExecuted(c)
           THEN Idle(p) /\ UNCHANGED <<shmem, reglock, lock, plock, local>>
           ELSE IF ~(c.avg_error >= c.log_min_error \/ c.track_mode = "forced")
           THEN Idle(p) /\ UNCHANGED <<shmem, reglock, lock, plock, local>>
           ELSE IF ~local[p].shared
           THEN PostmasterReset
           ELSE IF StoreIsFull(htab_counter) /\ c.queryId \notin DOMAIN htab
           THEN Idle(p) /\ UNCHANGED <<shmem, reglock, lock, plock, local>>
           ELSE /\ pc' = [pc EXCEPT ![p] = "u_find"]
                /\ ctx' = [ctx EXCEPT ![p] = PlanEstimatorContext(c)]
                /\ UNCHANGED <<shmem, reglock, lock, plock, local, op, part,
                               cnt, res>>
    /\ UNCHANGED disk

\* track_ExecutorEnd() up to store_data()'s dshash_find_or_insert(): the
\* mode test, the test that the plan was executed, the threshold and the
\* capacity guard.
track_ExecutorEnd(p) ==
    /\ pc[p] = "exec_end"
    /\ LET c == ctx[p]
       IN  IF ~track_optimizer_enabled(c.track_mode, c.log_min_error)
                \/ c.queryId = 0
           THEN Idle(p) /\ UNCHANGED <<shmem, reglock, lock, plock, local>>
           ELSE IF ~PlanExecuted(c)
           THEN Idle(p) /\ UNCHANGED <<shmem, reglock, lock, plock, local>>
           ELSE IF ~(c.avg_error >= c.log_min_error \/ c.track_mode = "forced")
           THEN Idle(p) /\ UNCHANGED <<shmem, reglock, lock, plock, local>>
           ELSE IF ~local[p].shared
           THEN PostmasterReset
           ELSE IF StoreIsFull(htab_counter)
           THEN Idle(p) /\ UNCHANGED <<shmem, reglock, lock, plock, local>>
           ELSE /\ pc' = [pc EXCEPT ![p] = "u_find"]
                /\ ctx' = [ctx EXCEPT ![p] = PlanEstimatorContext(c)]
                /\ UNCHANGED <<shmem, reglock, lock, plock, local, op, part,
                               cnt, res>>
    /\ UNCHANGED disk

\* store_data()'s accumulation: an error metric is folded only if it is not
\* negative, the execution time always, and the execution is counted.
Accumulate(e, c) ==
    [e EXCEPT !.avg_error = IF c.avg_error >= 0
                            THEN rstats_add_value(@, c.avg_error) ELSE @,
              !.exec_time = rstats_add_value(@, c.totaltime),
              !.nexecs = @ + 1]

\* Whether an rstats_add_value() of the accumulation raises.
AccumulateRaises(e, c) ==
    \/ c.avg_error >= 0 /\ RStatsCorrupted(e.avg_error)
    \/ RStatsCorrupted(e.exec_time)

\* The rest of store_data() for a key that is present as it would be if
\* it stored the statement's source text again.
StoreFound_copies_text(p, k) ==
    /\ htab' = IF AccumulateRaises(htab[k], ctx[p]) THEN htab
               ELSE [htab EXCEPT ![k] = [Accumulate(@, ctx[p]) EXCEPT
                                            !.query = ctx[p].text]]
    /\ Idle(p)
    /\ UNCHANGED <<registered, htab_counter, need_syncing, dsa_live, plock>>

\* The rest of store_data() for a key that is present as it would be if
\* every Upsert set need_syncing.
StoreFound_sets_need_syncing(p, k) ==
    /\ htab' = IF AccumulateRaises(htab[k], ctx[p]) THEN htab
               ELSE [htab EXCEPT ![k] = Accumulate(@, ctx[p])]
    /\ need_syncing' = 1
    /\ Idle(p)
    /\ UNCHANGED <<registered, htab_counter, dsa_live, plock>>

\* The rest of store_data() for a key that is present: under the entry's
\* partition lock, fold the execution and count it.  An ERROR out of
\* rstats_add_value() ends it with the lock released by the abort.
StoreFound(p, k) ==
    /\ htab' = IF AccumulateRaises(htab[k], ctx[p]) THEN htab
               ELSE [htab EXCEPT ![k] = Accumulate(@, ctx[p])]
    /\ Idle(p)
    /\ UNCHANGED <<registered, htab_counter, need_syncing, dsa_live, plock>>

\* What the memory of a new dshash item can hold in the fields store_data()
\* has not assigned: zeroes, what an entry freed earlier left there, or a
\* mix of the two.
GarbageEntries ==
    LET stale == [count |-> MaxExecs - 1, min |-> 1, max |-> 1]
        torn  == [count |-> 0, min |-> 1, max |-> 1]
    IN  {[nexecs |-> 0, query |-> 0,
          avg_error |-> rstats_set_empty, exec_time |-> rstats_set_empty],
         [nexecs |-> MaxExecs - 1, query |-> 0,
          avg_error |-> stale, exec_time |-> stale],
         [nexecs |-> MaxExecs - 1, query |-> 0,
          avg_error |-> torn, exec_time |-> torn]}

\* store_data() for a new key, up to the atomic increment: the entry is
\* inserted, its text allocated, its statistics set empty.  An ERROR of
\* dsa_allocate0() leaves the inserted entry, with the fields that were not
\* yet assigned holding what the memory held before.
StoreInsert(p, k, alloc) ==
    IF alloc
    THEN /\ htab' = Put(htab, k, [nexecs |-> 0, query |-> ctx[p].text,
                                  avg_error |-> rstats_set_empty,
                                  exec_time |-> rstats_set_empty])
         /\ dsa_live' = dsa_live + 1
         /\ htab_counter' = U32Add(htab_counter, 1)
         /\ plock' = [plock EXCEPT ![PartOf(k)].excl = p]
         /\ pc' = [pc EXCEPT ![p] = "u_sync"]
         /\ UNCHANGED <<registered, need_syncing, op, ctx, part, cnt, res>>
    ELSE /\ \E garbage \in GarbageEntries : htab' = Put(htab, k, garbage)
         /\ Idle(p)
         /\ UNCHANGED <<registered, htab_counter, need_syncing, dsa_live, plock>>

\* store_data()'s dshash_find_or_insert(), which waits for the key's
\* partition lock, and what follows it.
store_find(p, E) ==
    /\ pc[p] = "u_find"
    /\ CanLockExcl(PartOf(ctx[p].queryId))
    /\ LET k == ctx[p].queryId
       IN  IF k \in DOMAIN htab
           THEN StoreFound(p, k)
           ELSE \E alloc \in E.alloc : StoreInsert(p, k, alloc)
    /\ UNCHANGED <<reglock, lock, disk, local>>

\* store_data() for a new key after the increment: need_syncing is set, the
\* execution folded and counted, the partition lock released.
store_sync(p) ==
    /\ pc[p] = "u_sync"
    /\ need_syncing' = 1
    /\ htab' = [htab EXCEPT ![ctx[p].queryId] = Accumulate(@, ctx[p])]
    /\ plock' = ReleasedBy(p)
    /\ Idle(p)
    /\ UNCHANGED <<registered, htab_counter, dsa_live, reglock, lock, disk, local>>

(* ------------------------------- scan --------------------------------- *)

Garbage(t, i) == \E k \in KeysIn(t, i) : ~DsaPointerIsValid(t[k])

\* pg_track_optimizer() up to its loop.
scan_begin(p) ==
    /\ pc[p] = "idle"
    /\ local[p].htab
    /\ pc' = [pc EXCEPT ![p] = "s_walk"]
    /\ op' = [op EXCEPT ![p] = "scan"]
    /\ UNCHANGED <<shmem, reglock, lock, plock, disk, local, ctx, part, cnt, res>>

\* pg_track_optimizer()'s loop as it would be with dshash_seq_init(...,
\* true): the partitions are locked in exclusive mode.
scan_next_exclusive(p) ==
    /\ pc[p] = "s_walk"
    /\ IF part[p] < NParts - 1
       THEN LET i == part[p] + 1
            IN  /\ SeqCanMove(i, TRUE)
                /\ \E crash \in BOOLEAN :
                     IF crash /\ Garbage(htab, i)
                     THEN PostmasterReset
                     ELSE /\ plock' = SeqMove(p, i, TRUE)
                          /\ part' = [part EXCEPT ![p] = i]
                          /\ cnt' = [cnt EXCEPT ![p] = @ + Cardinality(KeysIn(htab, i))]
                          /\ UNCHANGED <<shmem, reglock, lock, local, pc, op, ctx, res>>
       ELSE /\ plock' = ReleasedBy(p)
            /\ pc' = [pc EXCEPT ![p] = "s_ret"]
            /\ UNCHANGED <<shmem, reglock, lock, local, op, ctx, part, cnt, res>>
    /\ UNCHANGED disk

\* pg_track_optimizer()'s loop over one partition, entered through
\* dshash_seq_next() in shared mode; after the last one, dshash_seq_term().
\* Reading the text of an entry whose query_ptr is garbage may kill the
\* backend.
scan_next(p) ==
    /\ pc[p] = "s_walk"
    /\ IF part[p] < NParts - 1
       THEN LET i == part[p] + 1
            IN  /\ SeqCanMove(i, FALSE)
                /\ \E crash \in BOOLEAN :
                     IF crash /\ Garbage(htab, i)
                     THEN PostmasterReset
                     ELSE /\ plock' = SeqMove(p, i, FALSE)
                          /\ part' = [part EXCEPT ![p] = i]
                          /\ cnt' = [cnt EXCEPT ![p] = @ + Cardinality(KeysIn(htab, i))]
                          /\ UNCHANGED <<shmem, reglock, lock, local, pc, op, ctx, res>>
       ELSE /\ plock' = ReleasedBy(p)
            /\ pc' = [pc EXCEPT ![p] = "s_ret"]
            /\ UNCHANGED <<shmem, reglock, lock, local, op, ctx, part, cnt, res>>
    /\ UNCHANGED disk

\* pg_track_optimizer() returns its rows.
scan_return(p) ==
    /\ pc[p] = "s_ret"
    /\ Idle(p)
    /\ UNCHANGED <<shmem, reglock, lock, plock, disk, local>>

(* ------------------------------- reset -------------------------------- *)

\* reset_htab() up to its loop.
reset_begin(p) ==
    /\ pc[p] = "idle"
    /\ local[p].htab
    /\ pc' = [pc EXCEPT ![p] = "r_walk"]
    /\ op' = [op EXCEPT ![p] = "reset"]
    /\ UNCHANGED <<shmem, reglock, lock, plock, disk, local, ctx, part, cnt, res>>

\* One turn of reset_htab()'s loop body on entry k: dsa_free, 
\* dshash_delete_current, the atomic decrement, counter++.
ResetDelete(p, k, crash) ==
    IF crash /\ (~DsaPointerIsValid(htab[k]) \/ ~local[p].shared)
    THEN PostmasterReset
    ELSE IF ~local[p].shared
    THEN PostmasterReset
    ELSE /\ htab' = Remove(htab, k)
         /\ dsa_live' = IF DsaPointerIsValid(htab[k]) THEN dsa_live - 1 ELSE dsa_live
         /\ htab_counter' = U32Add(htab_counter, -1)
         /\ cnt' = [cnt EXCEPT ![p] = @ + 1]
         /\ UNCHANGED <<registered, need_syncing, reglock, lock, plock, local,
                        pc, op, ctx, part, res>>

\* reset_htab()'s walk as it would be if dshash_seq_term() came after the
\* flush: the last partition stays locked while the coarse lock is taken.
reset_next_term_late(p) ==
    /\ pc[p] = "r_walk"
    /\ LET i == part[p]
       IN  IF i >= 0 /\ KeysIn(htab, i) # {}
           THEN \E crash \in BOOLEAN :
                    ResetDelete(p, CHOOSE k \in KeysIn(htab, i) :
                                     \A j \in KeysIn(htab, i) : k <= j, crash)
           ELSE IF i < NParts - 1
           THEN /\ SeqCanMove(i + 1, TRUE)
                /\ plock' = SeqMove(p, i + 1, TRUE)
                /\ part' = [part EXCEPT ![p] = i + 1]
                /\ UNCHANGED <<shmem, reglock, lock, local, pc, op, ctx, cnt, res>>
           ELSE /\ plock' = plock
                /\ IF cnt[p] = 0
                   THEN Idle(p)
                   ELSE /\ pc' = [pc EXCEPT ![p] = "r_lock"]
                        /\ part' = [part EXCEPT ![p] = -1]
                        /\ UNCHANGED <<op, ctx, cnt, res>>
                /\ UNCHANGED <<shmem, reglock, lock, local>>
    /\ UNCHANGED disk

\* reset_htab()'s walk in exclusive mode: the next entry of the partition it
\* is in, else the next partition, else dshash_seq_term() and the test of
\* counter.
reset_next(p) ==
    /\ pc[p] = "r_walk"
    /\ LET i == part[p]
       IN  IF i >= 0 /\ KeysIn(htab, i) # {}
           THEN \E crash \in BOOLEAN :
                    ResetDelete(p, CHOOSE k \in KeysIn(htab, i) :
                                     \A j \in KeysIn(htab, i) : k <= j, crash)
           ELSE IF i < NParts - 1
           THEN /\ SeqCanMove(i + 1, TRUE)
                /\ plock' = SeqMove(p, i + 1, TRUE)
                /\ part' = [part EXCEPT ![p] = i + 1]
                /\ UNCHANGED <<shmem, reglock, lock, local, pc, op, ctx, cnt, res>>
           ELSE /\ plock' = ReleasedBy(p)
                /\ IF cnt[p] = 0
                   THEN Idle(p)
                   ELSE /\ pc' = [pc EXCEPT ![p] = "r_lock"]
                        /\ part' = [part EXCEPT ![p] = -1]
                        /\ UNCHANGED <<op, ctx, cnt, res>>
                /\ UNCHANGED <<shmem, reglock, lock, local>>
    /\ UNCHANGED disk

\* reset_htab() after the walk as it would be without its LWLockAcquire().
reset_lock_not_taken(p) ==
    /\ pc[p] = "r_lock"
    /\ need_syncing' = 0
    /\ pc' = [pc EXCEPT ![p] = "f_open"]
    /\ UNCHANGED <<registered, htab, htab_counter, dsa_live, reglock, lock, plock,
                   disk, local, op, ctx, part, cnt, res>>

\* reset_htab() after the walk: the coarse lock, then need_syncing.
reset_lock(p) ==
    /\ pc[p] = "r_lock"
    /\ lock = 0
    /\ lock' = p
    /\ need_syncing' = 0
    /\ pc' = [pc EXCEPT ![p] = "f_open"]
    /\ UNCHANGED <<registered, htab, htab_counter, dsa_live, reglock, plock, disk,
                   local, op, ctx, part, cnt, res>>

(* ------------------------------- flush -------------------------------- *)

\* What _flush_hash_table() has written once the header is out.
HeaderOnly ==
    [exists |-> TRUE, magic |-> DATA_FILE_HEADER, fmtver |-> DATA_FORMAT_VERSION,
     verstr |-> DATA_PG_VERSION_STR, recs |-> <<>>, nrecs |-> 0, crc |-> <<>>,
     len |-> 3]

\* The records of partition i of table t, in the order of the walk.
PartRecords(t, i) ==
    LET ks == SetToSeq(KeysIn(t, i))
    IN  [n \in 1..Len(ks) |-> DiskRecord(ks[n], t[ks[n]])]

\* The file once the EOF marker, the record count and the checksum follow
\* the records f holds.
Completed(f) ==
    LET g == [f EXCEPT !.nrecs = Len(f.recs)]
    IN  [g EXCEPT !.crc = Crc32c(g), !.len = FileItems(g)]

\* to_flush(): the coarse lock in exclusive mode, then need_syncing.
flush_begin(p) ==
    /\ pc[p] = "idle"
    /\ local[p].htab
    /\ IF ~local[p].shared
       THEN PostmasterReset
       ELSE /\ lock = 0
            /\ lock' = p
            /\ need_syncing' = 0
            /\ pc' = [pc EXCEPT ![p] = "f_open"]
            /\ op' = [op EXCEPT ![p] = "flush"]
            /\ UNCHANGED <<registered, htab, htab_counter, dsa_live, reglock,
                           plock, local, ctx, part, cnt, res>>
    /\ UNCHANGED disk

\* _flush_hash_table() from PathNameOpenFile() through the header writes.
\* A failed open raises at once; a failed write goes to the error label,
\* which unlinks the temporary file.
flush_open(p, E) ==
    /\ pc[p] = "f_open"
    /\ \E io \in E.io \cap {"ok", "open", "write"} :
         /\ tmp' = CASE io = "ok" -> HeaderOnly
                     [] io = "open" -> tmp
                     [] OTHER -> NoFile
         /\ pc' = [pc EXCEPT ![p] = IF io = "ok" THEN "f_walk" ELSE "f_err"]
    /\ UNCHANGED <<shmem, reglock, lock, plock, file, local, op, ctx, part, cnt, res>>

\* _flush_hash_table() after its loop: dshash_seq_term(), the EOF marker,
\* the count, the checksum, FileSync() and durable_rename(), whose result
\* is not looked at.
FlushFinish(p, io) ==
    /\ plock' = ReleasedBy(p)
    /\ part' = [part EXCEPT ![p] = -1]
    /\ CASE io = "ok" ->
             /\ file' = Completed(tmp)
             /\ tmp' = NoFile
             /\ pc' = [pc EXCEPT ![p] = "f_ret"]
         [] io = "rename" ->
             /\ tmp' = Completed(tmp)
             /\ pc' = [pc EXCEPT ![p] = "f_ret"]
             /\ UNCHANGED file
         [] OTHER ->
             /\ tmp' = NoFile
             /\ pc' = [pc EXCEPT ![p] = "f_err"]
             /\ UNCHANGED file
    /\ cnt' = [cnt EXCEPT ![p] = IF op[p] = "reset" THEN @ ELSE Len(tmp.recs)]

\* _flush_hash_table()'s loop over one partition, entered through
\* dshash_seq_next() in shared mode.
FlushPartition(p, i, io) ==
    IF io = "crash" /\ Garbage(htab, i)
    THEN PostmasterReset /\ UNCHANGED disk
    ELSE IF io = "write"
    THEN /\ tmp' = NoFile
         /\ pc' = [pc EXCEPT ![p] = "f_err"]
         /\ plock' = SeqMove(p, i, FALSE)
         /\ UNCHANGED <<shmem, reglock, lock, file, local, op, ctx, part, cnt, res>>
    ELSE /\ tmp' = [tmp EXCEPT !.recs = @ \o PartRecords(htab, i),
                               !.len = @ + Cardinality(KeysIn(htab, i))]
         /\ plock' = SeqMove(p, i, FALSE)
         /\ part' = [part EXCEPT ![p] = i]
         /\ UNCHANGED <<shmem, reglock, lock, file, local, pc, op, ctx, cnt, res>>

flush_next(p, E) ==
    /\ pc[p] = "f_walk"
    /\ IF part[p] < NParts - 1
       THEN /\ SeqCanMove(part[p] + 1, FALSE)
            /\ \E io \in (E.io \cap {"ok", "write"}) \cup {"crash"} :
                 FlushPartition(p, part[p] + 1, io)
       ELSE /\ \E io \in E.io \cap {"ok", "write", "rename"} : FlushFinish(p, io)
            /\ UNCHANGED <<shmem, reglock, lock, local, op, ctx, res>>

\* The return from _flush_hash_table() as it would be if the caller cleared
\* need_syncing after the flush.
flush_return_clears(p) ==
    /\ pc[p] = "f_ret"
    /\ lock' = 0
    /\ need_syncing' = 0
    /\ local' = IF op[p] = "exit" THEN [local EXCEPT ![p] = NoLocal] ELSE local
    /\ Idle(p)
    /\ UNCHANGED <<registered, htab, htab_counter, dsa_live, reglock, plock, disk>>

\* _flush_hash_table() returned: the caller releases the coarse lock.  From
\* the exit hook the backend is then gone.
flush_return(p) ==
    /\ pc[p] = "f_ret"
    /\ lock' = 0
    /\ local' = IF op[p] = "exit" THEN [local EXCEPT ![p] = NoLocal] ELSE local
    /\ Idle(p)
    /\ UNCHANGED <<shmem, reglock, plock, disk>>

\* _flush_hash_table() raised: the abort releases every lock the backend
\* holds; the exit hook's PG_FINALLY releases the lock and drops the error.
flush_error(p) ==
    /\ pc[p] = "f_err"
    /\ lock' = 0
    /\ plock' = ReleasedBy(p)
    /\ local' = IF op[p] = "exit" THEN [local EXCEPT ![p] = NoLocal] ELSE local
    /\ Idle(p)
    /\ UNCHANGED <<shmem, reglock, disk>>

(* ----------------------------- exit hook ------------------------------ *)

\* A backend leaves: proc_exit() calls the hook with the exit code, under
\* the session's auto_flush.
proc_exit(p, E) ==
    /\ pc[p] = "idle"
    /\ \E x \in E.exits :
         ctx' = [ctx EXCEPT ![p] =
                    [queryId |-> 0, code |-> x.code, auto_flush |-> x.auto_flush]]
    /\ pc' = [pc EXCEPT ![p] = "x_hook"]
    /\ op' = [op EXCEPT ![p] = "exit"]
    /\ UNCHANGED <<shmem, reglock, lock, plock, disk, local, part, cnt, res>>

\* pto_before_shmem_exit() as it would be without the test of auto_flush.
pto_before_shmem_exit_always(p) ==
    /\ pc[p] = "x_hook"
    /\ IF ctx[p].code # 0 \/ ~local[p].htab
       THEN /\ local' = [local EXCEPT ![p] = NoLocal]
            /\ Idle(p)
            /\ UNCHANGED <<shmem, reglock, lock, plock>>
       ELSE IF ~local[p].shared
       THEN PostmasterReset
       ELSE IF need_syncing = 0
       THEN /\ local' = [local EXCEPT ![p] = NoLocal]
            /\ Idle(p)
            /\ UNCHANGED <<shmem, reglock, lock, plock>>
       ELSE /\ pc' = [pc EXCEPT ![p] = "x_lock"]
            /\ UNCHANGED <<shmem, reglock, lock, plock, local, op, ctx, part, cnt, res>>
    /\ UNCHANGED disk

\* pto_before_shmem_exit() up to its LWLockAcquire(); a backend that
\* returns from it is gone, and its slot is a new backend's.
pto_before_shmem_exit(p) ==
    /\ pc[p] = "x_hook"
    /\ IF ctx[p].code # 0 \/ ~local[p].htab \/ ~ctx[p].auto_flush
       THEN /\ local' = [local EXCEPT ![p] = NoLocal]
            /\ Idle(p)
            /\ UNCHANGED <<shmem, reglock, lock, plock>>
       ELSE IF ~local[p].shared
       THEN PostmasterReset
       ELSE IF need_syncing = 0
       THEN /\ local' = [local EXCEPT ![p] = NoLocal]
            /\ Idle(p)
            /\ UNCHANGED <<shmem, reglock, lock, plock>>
       ELSE /\ pc' = [pc EXCEPT ![p] = "x_lock"]
            /\ UNCHANGED <<shmem, reglock, lock, plock, local, op, ctx, part, cnt, res>>
    /\ UNCHANGED disk

\* pto_before_shmem_exit(): the coarse lock, then need_syncing, written in
\* advance of the flush.
exit_lock(p) ==
    /\ pc[p] = "x_lock"
    /\ lock = 0
    /\ lock' = p
    /\ need_syncing' = 0
    /\ pc' = [pc EXCEPT ![p] = "f_open"]
    /\ UNCHANGED <<registered, htab, htab_counter, dsa_live, reglock, plock, disk,
                   local, op, ctx, part, cnt, res>>

(* --------------------------- plan estimator --------------------------- *)

\* plan_error() and prediction_walker() (src/plan_error.c) compute in
\* doubles.  The model computes in fixed point: a double is the integer
\* number of its thousandths.  Counters of tuples and loops, which the
\* executor keeps as whole numbers, are plain integers.
Fx == 1000
LN2 == 693         \* log(2.)

fabs(x) == IF x < 0 THEN -x ELSE x

RECURSIVE LogAbove(_, _)
\* log(a / b) for a >= b > 0: halve down to [1, 2), then the series of
\* 2 * atanh((m - 1) / (m + 1)).
LogAbove(a, b) ==
    IF a >= 2 * b THEN LN2 + LogAbove(a, 2 * b)
    ELSE LET z  == ((a - b) * Fx) \div (a + b)
             z2 == (z * z) \div Fx
             z3 == (z2 * z) \div Fx
             z5 == (z3 * z2) \div Fx
         IN  2 * z + (2 * z3) \div 3 + (2 * z5) \div 5

\* log(a / b) for a, b > 0.
log(a, b) == IF a >= b THEN LogAbove(a, b) ELSE -LogAbove(b, a)

RECURSIVE SqrtFrom(_, _)
\* Newton's iteration from x down to the largest r with r * r <= v.
SqrtFrom(x, v) ==
    CHOOSE r \in {IF y >= x THEN x ELSE SqrtFrom(y, v) :
                     y \in {(x + v \div x) \div 2}} : TRUE

\* sqrt() of a fixed-point number that is not negative.
sqrt(v) == IF v <= 0 THEN 0 ELSE SqrtFrom(v * Fx, v * Fx)

\* clamp_row_est(): at least one row, rounded to a whole number.
clamp_row_est(nrows) ==
    IF nrows <= Fx THEN Fx ELSE ((nrows + Fx \div 2) \div Fx) * Fx

(* The plan state tree.  Node 1 is the root; every other node hangs under   *)
(* an earlier one as its lefttree, as its righttree or as the plan of one   *)
(* of its subPlan expressions.                                              *)
Kinds == {"lefttree", "righttree", "subPlan"}
RootOnly == <<[parent |-> 0, kind |-> "root"]>>

\* Whether tree t has room for the child c: a node has one lefttree and one
\* righttree, and any number of subPlans.
HasRoom(t, c) ==
    \/ c.kind = "subPlan"
    \/ \A j \in 1..Len(t) : ~(t[j].parent = c.parent /\ t[j].kind = c.kind)

RECURSIVE PlanStates(_)
\* The plan state trees of exactly n nodes.
PlanStates(n) ==
    IF n = 1 THEN {RootOnly}
    ELSE {Append(x[1], x[2]) :
             x \in {y \in PlanStates(n - 1) \X [parent : 1..(n - 1), kind : Kinds] :
                       HasRoom(y[1], y[2])}}

\* The plan state trees of up to n nodes.
PlanTrees(n) == UNION {PlanStates(m) : m \in 1..n}

\* The children planstate_tree_walker() calls the walker on, in its order:
\* lefttree, righttree, then the plans of the subPlan list.
SubPlans(t, i) == SetToSeq({j \in 1..Len(t) : t[j].parent = i /\ t[j].kind = "subPlan"})

\* The children as they would be if the plans of subPlans were not walked.
Children_of_tree_only(t, i) ==
    SetToSeq({j \in 1..Len(t) : t[j].parent = i /\ t[j].kind = "lefttree"})
    \o SetToSeq({j \in 1..Len(t) : t[j].parent = i /\ t[j].kind = "righttree"})

Children(t, i) ==
    SetToSeq({j \in 1..Len(t) : t[j].parent = i /\ t[j].kind = "lefttree"})
    \o SetToSeq({j \in 1..Len(t) : t[j].parent = i /\ t[j].kind = "righttree"})
    \o SubPlans(t, i)

(* A node as the walker reads it: whether it has an Instrumentation, the   *)
(* Instrumentation's fields after InstrEndLoop() (total in thousandths of  *)
(* a second), the worker_instrument array, and of its Plan the tag (join   *)
(* or not), plan_rows and total_cost.                                      *)
NoWorkers == <<>>

\* A node whose instrument is NULL.
Uninstrumented ==
    [instrument |-> FALSE, nloops |-> 0, total |-> 0, ntuples |-> 0,
     nfiltered1 |-> 0, nfiltered2 |-> 0, ntuples2 |-> 0,
     worker_instrument |-> NoWorkers, join |-> FALSE,
     plan_rows |-> 10, total_cost |-> 100]

\* A node that was never executed.
NeverExecuted == [Uninstrumented EXCEPT !.instrument = TRUE]

\* The nodes executed without parallel workers.
SerialNodes ==
    {[instrument |-> TRUE, nloops |-> nloops, total |-> total, ntuples |-> ntuples,
      nfiltered1 |-> f[1], nfiltered2 |-> f[2], ntuples2 |-> f[3],
      worker_instrument |-> NoWorkers, join |-> join,
      plan_rows |-> plan_rows, total_cost |-> 100] :
        nloops \in {1, 2}, total \in {0, 10}, ntuples \in {0, 10},
        f \in {<<0, 0, 0>>, <<90, 0, 0>>, <<0, 90, 0>>, <<0, 0, 90>>},
        join \in BOOLEAN, plan_rows \in {0, 10, 100}}

\* The nodes executed by the leader and one worker: the node's own
\* Instrumentation holds the totals over both.
ParallelNodes ==
    {[instrument |-> TRUE, nloops |-> 2, total |-> 10, ntuples |-> 10,
      nfiltered1 |-> 0, nfiltered2 |-> 0, ntuples2 |-> 0,
      worker_instrument |-> <<w>>, join |-> FALSE,
      plan_rows |-> 10, total_cost |-> 100] :
        w \in [nloops : 0..2, ntuples : {0, 10}] \ {[nloops |-> 0, ntuples |-> 10]}}

\* The leaf of the S1 scenario and its variants S2 and S3.
Leaf ==
    [instrument |-> TRUE, nloops |-> 1, total |-> 10, ntuples |-> 10,
     nfiltered1 |-> 0, nfiltered2 |-> 0, ntuples2 |-> 0,
     worker_instrument |-> NoWorkers, join |-> FALSE,
     plan_rows |-> 100, total_cost |-> 100]

RECURSIVE WorkerRows(_)
\* The loop over the workers: real_rows, wntuples and wnloops.
WorkerRows(ws) ==
    IF ws = <<>> THEN [real_rows |-> 0, wntuples |-> 0, wnloops |-> 0]
    ELSE LET instr == Head(ws)
             r == WorkerRows(Tail(ws))
         IN  IF instr.nloops <= 0 THEN r
             ELSE [real_rows |-> r.real_rows + (instr.ntuples * Fx) \div instr.nloops,
                   wntuples |-> r.wntuples + instr.ntuples,
                   wnloops |-> r.wnloops + instr.nloops]

\* The branch of a node with worker_instrument: plan_rows times the
\* parallel divisor, and the rows per loop of each worker and of the leader.
parallel_rows(n, leader) ==
    LET num_workers == Len(n.worker_instrument)
        leader_contribution == Fx - (3 * num_workers * Fx) \div 10
        divisor == num_workers * Fx
                   + IF leader /\ leader_contribution > 0
                     THEN leader_contribution ELSE 0
        w == WorkerRows(n.worker_instrument)
    IN  [plan_rows |-> n.plan_rows * divisor,
         real_rows |-> w.real_rows
                       + IF n.nloops - w.wnloops > 0
                         THEN ((n.ntuples - w.wntuples) * Fx)
                                  \div (n.nloops - w.wnloops)
                         ELSE 0]

\* The serial branch as it would be with the block under "#if 0" compiled
\* in: a leaf adds its filtered tuples.
serial_rows_with_filtered(n, leaf) ==
    [plan_rows |-> n.plan_rows * Fx,
     real_rows |-> (n.ntuples * Fx) \div n.nloops
                   + IF leaf
                     THEN ((n.nfiltered1 + n.nfiltered2 + n.ntuples2) * Fx)
                              \div n.nloops
                     ELSE 0]

\* The serial branch: the tuples the node produced, per loop.
serial_rows(n, leaf) ==
    [plan_rows |-> n.plan_rows * Fx,
     real_rows |-> (n.ntuples * Fx) \div n.nloops]

\* node_error as it would be without fabs().
node_error_signed(real_rows, plan_rows) == log(real_rows, plan_rows)

\* node_error = fabs(log(real_rows / plan_rows)).
node_error(real_rows, plan_rows) == fabs(log(real_rows, plan_rows))

\* What prediction_walker() computes of an instrumented, executed node
\* before it touches the context.
Estimate(n, leaf, leader, totaltime) ==
    LET rows == IF n.worker_instrument # NoWorkers
                THEN parallel_rows(n, leader) ELSE serial_rows(n, leaf)
        plan_rows == clamp_row_est(rows.plan_rows)
        real_rows == IF rows.real_rows <= 0 THEN Fx \div n.nloops
                     ELSE rows.real_rows
    IN  [plan_rows |-> plan_rows,
         real_rows |-> real_rows,
         node_error |-> node_error(real_rows, plan_rows),
         relative_time |-> ((n.total \div n.nloops) * Fx) \div totaltime]

\* jf_factor and lf_factor: filtered tuples per loop, weighted by
\* relative_time / real_rows when there are any.
filter_factor(nfiltered, n, e) ==
    LET factor == (nfiltered * Fx) \div n.nloops
    IN  IF factor > 0
        THEN (factor * ((e.relative_time * Fx) \div e.real_rows)) \div Fx
        ELSE factor

RECURSIVE SubPlanFactor(_, _, _)
\* The loop over a node's subPlan list: worst_splan_factor after it.
SubPlanFactor(worst, totaltime, instrs) ==
    IF instrs = <<>> THEN worst
    ELSE LET instr == Head(instrs)
             time_ratio == (instr.total * Fx) \div totaltime
             loop_factor == (instr.nloops * Fx * Fx)
                                \div log((instr.nloops + 1) * Fx, Fx)
             cost_factor == (loop_factor * time_ratio) \div Fx
         IN  IF instr.nloops <= 0 \/ totaltime <= 0
             THEN SubPlanFactor(worst, totaltime, Tail(instrs))
             ELSE SubPlanFactor(IF cost_factor >= worst \/ cost_factor < 0
                                THEN cost_factor ELSE worst,
                                totaltime, Tail(instrs))

NoNode ==
    [pstate |-> 0, leaf |-> FALSE, in |-> Uninstrumented, assessed |-> FALSE,
     plan_rows |-> 0, real_rows |-> 0, node_error |-> 0]

\* plan_error() up to its call of the walker: the context is zeroed and
\* takes the executor's total time and the plan's total cost.  stack is the
\* C stack of the walker's calls, pstate the argument of the call about to
\* be made, visits how often each node has been the argument of a call,
\* node what the walker computed of the node it returned from last, entry
\* the two node counts of the execution's entry in the table.
plan_error(p, E) ==
    /\ pc[p] = "idle"
    /\ \E t \in PlanTrees(E.max_nodes), totaltime \in E.totaltimes, totalcost \in E.totalcosts,
          leader \in E.leader :
         ctx' = [ctx EXCEPT ![p] =
                    [planstate |-> t,
                     parallel_leader_participation |-> leader,
                     totaltime |-> totaltime, totalcost |-> totalcost,
                     nnodes |-> 0, counter |-> 0,
                     avg_error |-> 0, rms_error |-> 0, twa_error |-> 0,
                     wca_error |-> 0, max_jf_factor |-> 0, max_lf_factor |-> 0,
                     worst_splan_factor |-> 0,
                     stack |-> <<>>, pstate |-> 1,
                     visits |-> [i \in 1..Len(t) |-> 0],
                     instrument |-> [i \in 1..Len(t) |-> [nloops |-> 0, total |-> 0]],
                     node |-> NoNode,
                     entry |-> [evaluated_nodes |-> 0, plan_nodes |-> 0]]]
    /\ pc' = [pc EXCEPT ![p] = "pw_call"]
    /\ op' = [op EXCEPT ![p] = "plan_error"]
    /\ UNCHANGED <<shmem, reglock, lock, plock, disk, local, part, cnt, res>>

\* A call of prediction_walker() as it would be if the counter counted the
\* nodes that have children only.
prediction_walker_counts_parents(p) ==
    /\ pc[p] = "pw_call"
    /\ LET c == ctx[p]
           n == IF Children(c.planstate, c.pstate) = <<>> THEN 0 ELSE 1
       IN  ctx' = [ctx EXCEPT ![p] =
                      [c EXCEPT !.counter = @ + n,
                                !.visits[c.pstate] = @ + 1,
                                !.stack = Append(@, [pstate |-> c.pstate,
                                                     tmp_counter |-> c.counter + n,
                                                     todo |-> Children(c.planstate, c.pstate)]),
                                !.pstate = 0]]
    /\ pc' = [pc EXCEPT ![p] = "pw_walk"]
    /\ UNCHANGED <<shmem, reglock, lock, plock, disk, local, op, part, cnt, res>>

\* A call of prediction_walker(): the counter is incremented and kept in
\* tmp_counter, and planstate_tree_walker() is entered.
prediction_walker(p) ==
    /\ pc[p] = "pw_call"
    /\ LET c == ctx[p]
       IN  ctx' = [ctx EXCEPT ![p] =
                      [c EXCEPT !.counter = @ + 1,
                                !.visits[c.pstate] = @ + 1,
                                !.stack = Append(@, [pstate |-> c.pstate,
                                                     tmp_counter |-> c.counter + 1,
                                                     todo |-> Children(c.planstate, c.pstate)]),
                                !.pstate = 0]]
    /\ pc' = [pc EXCEPT ![p] = "pw_walk"]
    /\ UNCHANGED <<shmem, reglock, lock, plock, disk, local, op, part, cnt, res>>

\* planstate_tree_walker() calls the walker on the next child.
planstate_tree_walker(p) ==
    /\ pc[p] = "pw_walk"
    /\ LET c == ctx[p]
           top == Len(c.stack)
       IN  /\ top > 0
           /\ c.stack[top].todo # <<>>
           /\ ctx' = [ctx EXCEPT ![p] =
                         [c EXCEPT !.pstate = Head(c.stack[top].todo),
                                   !.stack[top].todo = Tail(@)]]
    /\ pc' = [pc EXCEPT ![p] = "pw_call"]
    /\ UNCHANGED <<shmem, reglock, lock, plock, disk, local, op, part, cnt, res>>

\* Whether the walker's work on a node with fields n adds to the sums: the
\* node has an Instrumentation, was executed and was timed.
Contributes(n) == n.instrument /\ n.nloops > 0 /\ n.total # 0

\* The context after the walker's work on node id, whose fields are n and
\* whose estimate is e: the early returns, then the sums of the errors, the
\* two filter factors and the count of assessed nodes.
Assessed(c, id, n, leaf, e) ==
    IF ~n.instrument \/ n.nloops <= 0 \/ n.total = 0
    THEN [c EXCEPT !.node = [NoNode EXCEPT !.pstate = id, !.leaf = leaf, !.in = n]]
    ELSE LET jf_factor == filter_factor(n.nfiltered1 + n.nfiltered2, n, e)
             lf_factor == filter_factor(n.nfiltered1, n, e)
         IN  [c EXCEPT
                 !.avg_error = @ + e.node_error,
                 !.rms_error = @ + (e.node_error * e.node_error) \div Fx,
                 !.twa_error = @ + (e.node_error * e.relative_time) \div Fx,
                 !.wca_error =
                     IF c.totalcost > 0
                     THEN @ + (e.node_error * ((n.total_cost * Fx) \div c.totalcost))
                                  \div Fx
                     ELSE @,
                 !.max_jf_factor = IF n.join /\ jf_factor > @ THEN jf_factor ELSE @,
                 !.max_lf_factor = IF leaf /\ lf_factor > @ THEN lf_factor ELSE @,
                 !.nnodes = @ + 1,
                 !.node = [pstate |-> id, leaf |-> leaf, in |-> n, assessed |-> TRUE,
                           plan_rows |-> e.plan_rows, real_rows |-> e.real_rows,
                           node_error |-> e.node_error]]

\* prediction_walker() after planstate_tree_walker() has returned: the loop
\* over the node's subPlans, then the node itself, then the return.  The
\* plan of a subPlan has an Instrumentation and no workers; the root's cost
\* is the plan's total cost and no node costs more.
prediction_walker_node(p, E) ==
    /\ pc[p] = "pw_walk"
    /\ Len(ctx[p].stack) > 0
    /\ ctx[p].stack[Len(ctx[p].stack)].todo = <<>>
    /\ \E c \in {ctx[p]} :
       \E top \in {c.stack[Len(c.stack)]} :
       \E worst \in {SubPlanFactor(c.worst_splan_factor, c.totaltime,
                                   LET splans == SubPlans(c.planstate, top.pstate)
                                   IN  [i \in 1..Len(splans) |->
                                           c.instrument[splans[i]]])} :
       \E n \in E.nodes, total_cost \in {0, c.totalcost} :
       \E e \in {IF Contributes(n)
                 THEN Estimate(n, top.tmp_counter = c.counter,
                               c.parallel_leader_participation, c.totaltime)
                 ELSE [plan_rows |-> 0, real_rows |-> 0, node_error |-> 0,
                       relative_time |-> 0]} :
            /\ c.planstate[top.pstate].kind = "subPlan" =>
                   n.instrument /\ n.worker_instrument = NoWorkers
            /\ top.pstate = 1 => total_cost = c.totalcost
            /\ ctx' = [ctx EXCEPT ![p] =
                          Assessed([c EXCEPT
                                       !.worst_splan_factor = worst,
                                       !.stack = SubSeq(@, 1, Len(@) - 1),
                                       !.instrument[top.pstate] =
                                           IF c.planstate[top.pstate].kind = "subPlan"
                                           THEN [nloops |-> n.nloops,
                                                 total |-> n.total]
                                           ELSE @],
                                   top.pstate, [n EXCEPT !.total_cost = total_cost],
                                   top.tmp_counter = c.counter, e)]
    /\ pc' = [pc EXCEPT ![p] = IF Len(ctx[p].stack) = 1 THEN "pw_end" ELSE "pw_walk"]
    /\ UNCHANGED <<shmem, reglock, lock, plock, disk, local, op, part, cnt, res>>

\* plan_error() after the walk: the sums are averaged over the assessed
\* nodes, or all four errors are -1 if no node was assessed.
plan_error_return(p) ==
    /\ pc[p] = "pw_end"
    /\ LET c == ctx[p]
       IN  ctx' = [ctx EXCEPT ![p] =
                      IF c.nnodes > 0
                      THEN [c EXCEPT !.avg_error = @ \div c.nnodes,
                                     !.rms_error = sqrt(@ \div c.nnodes),
                                     !.twa_error = @ \div c.nnodes,
                                     !.wca_error = @ \div c.nnodes]
                      ELSE [c EXCEPT !.avg_error = -Fx, !.rms_error = -Fx,
                                     !.twa_error = -Fx, !.wca_error = -Fx]]
    /\ pc' = [pc EXCEPT ![p] = "pe_done"]
    /\ UNCHANGED <<shmem, reglock, lock, plock, disk, local, op, part, cnt, res>>

\* store_data() copies the two counts of the walk into the execution's
\* entry.
store_data_nodes(p) ==
    /\ pc[p] = "pe_done"
    /\ ctx' = [ctx EXCEPT ![p].entry = [evaluated_nodes |-> ctx[p].nnodes,
                                        plan_nodes |-> ctx[p].counter]]
    /\ pc' = [pc EXCEPT ![p] = "sd_nodes"]
    /\ UNCHANGED <<shmem, reglock, lock, plock, disk, local, op, part, cnt, res>>

(* ------------------------------- RStats ------------------------------- *)

(* The RStats type of src/rstats.c with all five fields, as its SQL         *)
(* functions see it.  A double is an exact rational <<numerator,            *)
(* denominator>> in lowest terms: the arithmetic does not round.  A number  *)
(* in the text form is a decimal numeral <<m, e>> standing for m / 10^e;    *)
(* printf's "%.15g" keeps TextDigits significant digits of it.              *)
RECURSIVE GCD(_, _)
GCD(a, b) == IF b = 0 THEN a ELSE GCD(b, a % b)

\* The rational n / d, d > 0, in lowest terms.
Rat(n, d) ==
    LET g == GCD(fabs(n), d)
    IN  <<n \div g, d \div g>>

Zero == <<0, 1>>
RAdd(a, b) == Rat(a[1] * b[2] + b[1] * a[2], a[2] * b[2])
RSub(a, b) == Rat(a[1] * b[2] - b[1] * a[2], a[2] * b[2])
RMul(a, b) == Rat(a[1] * b[1], a[2] * b[2])
RDivInt(a, k) == Rat(a[1], a[2] * k)
RLess(a, b) == a[1] * b[2] < b[1] * a[2]

\* rstats_set_empty() on all five fields.
rstats_empty_constructor ==
    [count |-> 0, mean |-> Zero, m2 |-> Zero, min |-> Zero, max |-> Zero]

\* rstats_init_internal(): the statistics of one value.
rstats_init_internal(value) ==
    [count |-> 1, mean |-> value, m2 |-> Zero, min |-> value, max |-> value]

\* The test of rstats_is_empty(), rstats_recv() and rstats_send(): count is
\* 0 and another field is not.
NonCanonicalEmpty(s) ==
    s.count = 0 /\ (s.mean # Zero \/ s.m2 # Zero \/ s.min # Zero \/ s.max # Zero)

\* rstats_is_empty() when it returns.
rstats_is_empty(s) == ~(s.count > 0)

\* Welford's step as it would be with the square of the first difference.
welford_delta_squared(s, value) ==
    LET new_count == s.count + 1
        delta == RSub(value, s.mean)
    IN  [count |-> new_count,
         mean |-> RAdd(s.mean, RDivInt(delta, new_count)),
         m2 |-> RAdd(s.m2, RMul(delta, delta)),
         min |-> IF RLess(value, s.min) THEN value ELSE s.min,
         max |-> IF RLess(s.max, value) THEN value ELSE s.max]

\* Welford's step as it would be if the maximum were left as it is.
welford_keeps_max(s, value) ==
    LET new_count == s.count + 1
        delta == RSub(value, s.mean)
        mean == RAdd(s.mean, RDivInt(delta, new_count))
        delta2 == RSub(value, mean)
    IN  [count |-> new_count,
         mean |-> mean,
         m2 |-> RAdd(s.m2, RMul(delta, delta2)),
         min |-> IF RLess(value, s.min) THEN value ELSE s.min,
         max |-> s.max]

\* rstats_add_value() on a value that is not empty: Welford's step.
welford(s, value) ==
    LET new_count == s.count + 1
        delta == RSub(value, s.mean)
        mean == RAdd(s.mean, RDivInt(delta, new_count))
        delta2 == RSub(value, mean)
    IN  [count |-> new_count,
         mean |-> mean,
         m2 |-> RAdd(s.m2, RMul(delta, delta2)),
         min |-> IF RLess(value, s.min) THEN value ELSE s.min,
         max |-> IF RLess(s.max, value) THEN value ELSE s.max]

\* rstats_add(): rstats_add_value() on all five fields, for an s on which
\* rstats_is_empty() does not raise.
rstats_add(s, value) ==
    IF rstats_is_empty(s) THEN rstats_init_internal(value) ELSE welford(s, value)

\* The variance rstats_out() and rstats_get_field() derive from m2.
variance(s) == IF s.count > 1 THEN RDivInt(s.m2, s.count - 1) ELSE Zero

RECURSIVE Pow10(_)
Pow10(e) == IF e = 0 THEN 1 ELSE 10 * Pow10(e - 1)

RECURSIVE Significant(_, _, _)
\* a / d scaled by a power of ten into [10^(TextDigits-1), 10^TextDigits):
\* the scaled fraction and the power.
Significant(a, d, e) ==
    IF a >= d * Pow10(TextDigits) THEN Significant(a, d * 10, e - 1)
    ELSE IF a < d * Pow10(TextDigits - 1) THEN Significant(a * 10, d, e + 1)
    ELSE <<a, d, e>>

RECURSIVE Stripped(_, _)
\* "%g" drops the trailing zeros of the fraction.
Stripped(m, e) ==
    IF m # 0 /\ m % 10 = 0 THEN Stripped(m \div 10, e - 1) ELSE <<m, e>>

\* printf("%.15g") of a double: the nearest numeral of TextDigits
\* significant digits, ties to the even one.
Printed(q) ==
    IF q[1] = 0 THEN <<0, 0>>
    ELSE LET x == Significant(fabs(q[1]), q[2], 0)
             floor == x[1] \div x[2]
             twice == 2 * (x[1] % x[2])
             m == IF twice > x[2] \/ (twice = x[2] /\ floor % 2 = 1)
                  THEN floor + 1 ELSE floor
             t == Stripped(m, x[3])
         IN  <<IF q[1] < 0 THEN -t[1] ELSE t[1], t[2]>>

\* sscanf("%lf") of a numeral: the double of its value.
Scanned(t) ==
    IF t[2] >= 0 THEN Rat(t[1], Pow10(t[2])) ELSE <<t[1] * Pow10(-t[2]), 1>>

\* rstats_out(): the text form, a numeral for each of mean, min, max and
\* the variance.
rstats_out(s) ==
    [wellformed |-> TRUE, count |-> s.count, mean |-> Printed(s.mean),
     min |-> Printed(s.min), max |-> Printed(s.max),
     variance |-> Printed(variance(s))]

\* What an input function gives: an ERROR, or a value.
Raised == [error |-> TRUE, s |-> rstats_empty_constructor]
Returned(s) == [error |-> FALSE, s |-> s]

\* rstats_in(): the five fields are scanned and validated, m2 is the
\* variance times count - 1.
rstats_in(str) ==
    IF ~str.wellformed THEN Raised
    ELSE LET mean == Scanned(str.mean)
             min_val == Scanned(str.min)
             max_val == Scanned(str.max)
             var == Scanned(str.variance)
         IN  IF str.count < 0 THEN Raised
             ELSE IF RLess(var, Zero) THEN Raised
             ELSE IF str.count > 0 /\ RLess(max_val, min_val) THEN Raised
             ELSE IF str.count = 0
                     /\ (mean # Zero \/ min_val # Zero \/ max_val # Zero
                         \/ var # Zero)
             THEN Raised
             ELSE Returned([count |-> str.count, mean |-> mean,
                            m2 |-> IF str.count > 1
                                   THEN RMul(var, <<str.count - 1, 1>>)
                                   ELSE Zero,
                            min |-> min_val, max |-> max_val])

\* rstats_recv(): the five fields are taken from the message as they are;
\* only a count of 0 with another field not 0 is refused.
rstats_recv(buf) ==
    IF NonCanonicalEmpty(buf) THEN Raised ELSE Returned(buf)

\* rstats_eq(): all five fields are the same.
rstats_eq(a, b) ==
    /\ a.count = b.count /\ a.mean = b.mean /\ a.m2 = b.m2
    /\ a.min = b.min /\ a.max = b.max

\* The values folded, the numerals and the counts that come in from
\* outside.
Values == (-1)..MaxValue
Counts == {-1, 0, 1, 2}
Numerals == {<<-1, 0>>, <<0, 0>>, <<1, 0>>, <<2, 0>>}
Doubles == {<<-1, 1>>, Zero, <<1, 1>>, <<2, 1>>}

NoStr ==
    [wellformed |-> FALSE, count |-> 0, mean |-> <<0, 0>>, min |-> <<0, 0>>,
     max |-> <<0, 0>>, variance |-> <<0, 0>>]

\* The strings handed to rstats_in(): one that does not scan, and every
\* text form over the counts and the numerals.
Strs ==
    {NoStr} \cup [wellformed : {TRUE}, count : Counts, mean : Numerals,
                  min : Numerals, max : Numerals, variance : Numerals]

\* The messages handed to rstats_recv().
Bufs == [count : Counts, mean : Doubles, m2 : Doubles, min : Doubles, max : Doubles]

\* A backend's RStats datum: where it came from (from), the values folded
\* into it since (xs), the string or message it was read from, whether
\* the input function raised, and the last text form made of it (out) with
\* what rstats_in() made of that text (back).
Datum(from, xs, r) ==
    [from |-> from, xs |-> xs, s |-> r.s, error |-> r.error,
     str |-> NoStr, buf |-> rstats_empty_constructor,
     out |-> NoStr, back |-> Raised]

\* rstats() and rstats(value): the constructors.
rstats_constructor(p) ==
    /\ pc[p] = "idle"
    /\ \/ ctx' = [ctx EXCEPT ![p] =
                     Datum("empty", <<>>, Returned(rstats_empty_constructor))]
       \/ \E x \in Values :
            ctx' = [ctx EXCEPT ![p] =
                       Datum("value", <<x>>, Returned(rstats_init_internal(<<x, 1>>)))]
    /\ pc' = [pc EXCEPT ![p] = "rstats"]
    /\ op' = [op EXCEPT ![p] = "rstats"]
    /\ UNCHANGED <<shmem, reglock, lock, plock, disk, local, part, cnt, res>>

\* stats + value, on a datum made by a constructor.
rstats_add_call(p) ==
    /\ pc[p] = "rstats"
    /\ ctx[p].from \in {"empty", "value"}
    /\ Len(ctx[p].xs) < MaxAdds
    /\ \E x \in Values :
         ctx' = [ctx EXCEPT ![p] =
                    Datum(ctx[p].from, Append(ctx[p].xs, x),
                          Returned(rstats_add(ctx[p].s, <<x, 1>>)))]
    /\ UNCHANGED <<shmem, reglock, lock, plock, disk, local, pc, op, part, cnt, res>>

\* stats::text::rstats: rstats_out(), then rstats_in() on its string.
rstats_text_cast(p) ==
    /\ pc[p] = "rstats"
    /\ ~ctx[p].error
    /\ ~ctx[p].out.wellformed
    /\ ctx' = [ctx EXCEPT ![p].out = rstats_out(ctx[p].s),
                          ![p].back = rstats_in(rstats_out(ctx[p].s))]
    /\ UNCHANGED <<shmem, reglock, lock, plock, disk, local, pc, op, part, cnt, res>>

\* 'string'::rstats: rstats_in() on a string from outside.
rstats_in_call(p) ==
    /\ pc[p] = "idle"
    /\ \E str \in Strs :
         ctx' = [ctx EXCEPT ![p] =
                    [Datum("in", <<>>, rstats_in(str)) EXCEPT !.str = str]]
    /\ pc' = [pc EXCEPT ![p] = "rstats"]
    /\ op' = [op EXCEPT ![p] = "rstats"]
    /\ UNCHANGED <<shmem, reglock, lock, plock, disk, local, part, cnt, res>>

\* rstats_recv() on a message from outside.
rstats_recv_call(p) ==
    /\ pc[p] = "idle"
    /\ \E buf \in Bufs :
         ctx' = [ctx EXCEPT ![p] =
                    [Datum("recv", <<>>, rstats_recv(buf)) EXCEPT !.buf = buf]]
    /\ pc' = [pc EXCEPT ![p] = "rstats"]
    /\ op' = [op EXCEPT ![p] = "rstats"]
    /\ UNCHANGED <<shmem, reglock, lock, plock, disk, local, part, cnt, res>>

(* ------------------------- the server, the disk ----------------------- *)

\* Every backend has exited and the server is stopped and started: the
\* segment is gone, the files stay.
Restart ==
    /\ registered
    /\ \A p \in Procs : pc[p] = "idle" /\ local[p] = NoLocal
    /\ PostmasterReset
    /\ UNCHANGED disk

\* A file _flush_hash_table() wrote in full.
FileIntact(f) ==
    /\ f.exists
    /\ f = Completed([f EXCEPT !.magic = DATA_FILE_HEADER,
                               !.fmtver = DATA_FORMAT_VERSION,
                               !.verstr = DATA_PG_VERSION_STR])
    /\ \A i \in 1..Len(f.recs) : f.recs[i].queryId # 0 /\ f.recs[i].dbOid # InvalidOid
    /\ \A i, j \in 1..Len(f.recs) : f.recs[i].queryId = f.recs[j].queryId => i = j

\* The damage a stopped server's file can take, one kind at a time.
Damaged(f) ==
    {[f EXCEPT !.len = n] : n \in 0..(FileItems(f) - 1)}
    \cup {[f EXCEPT !.magic = 0], [f EXCEPT !.fmtver = 0],
          [f EXCEPT !.verstr = OTHER_PG_VERSION_STR],
          [f EXCEPT !.nrecs = @ + 1], [f EXCEPT !.crc = <<>>]}
    \cup {[f EXCEPT !.recs[i].queryId = 0] : i \in 1..Len(f.recs)}
    \cup {[f EXCEPT !.recs[i].nexecs = @ + 1] : i \in 1..Len(f.recs)}
    \cup {[f EXCEPT !.recs[i].queryId = f.recs[j].queryId] :
             i, j \in 1..Len(f.recs)}

RECURSIVE TableRecords(_, _)
\* The records of partitions i.. of table t, in the order of the walk.
TableRecords(t, i) ==
    IF i >= NParts THEN <<>> ELSE PartRecords(t, i) \o TableRecords(t, i + 1)

\* The file _flush_hash_table() writes from table t.
FlushImage(t) ==
    Completed([HeaderOnly EXCEPT !.recs = TableRecords(t, 0),
                                 !.len = 3 + Cardinality(DOMAIN t)])

\* The tables a backend working alone can bring the store to.
Tables ==
    UNION {[S -> {Stored(n, text) : n \in 1..MaxExecs, text \in Texts}] :
              S \in {T \in SUBSET QueryIds : ~StoreIsFull(Cardinality(T) - 1)}}

\* A start of the server over the file an earlier run left.
InitRestore ==
    /\ InitServer
    /\ file \in {FlushImage(t) : t \in Tables}
    /\ tmp = NoFile

Corrupt ==
    /\ ~registered
    /\ FileIntact(file)
    /\ file' \in Damaged(file) \ {file}
    /\ UNCHANGED <<shmem, reglock, lock, plock, tmp, local, pc, op, ctx, part, cnt, res>>

(* ------------------------- the specifications ------------------------- *)

Boot(p, E) ==
    \/ track_attach_shmem(p)
    \/ load_open(p, E)
    \/ attach_return(p)

Restore(p, E) ==
    \/ load_record(p, E)
    \/ load_tail(p)

RestoreFails(p) ==
    \/ load_catch(p)
    \/ attach_abort(p)

Store(p, E) ==
    \/ ExecutorRun(p, E)
    \/ track_ExecutorEnd(p)
    \/ store_find(p, E)
    \/ store_sync(p)

Scan(p) ==
    \/ scan_begin(p)
    \/ scan_next(p)
    \/ scan_return(p)

Reset(p) ==
    \/ reset_begin(p)
    \/ reset_next(p)
    \/ reset_lock(p)

Flush(p, E) ==
    \/ flush_begin(p)
    \/ flush_open(p, E)
    \/ flush_next(p, E)
    \/ flush_return(p)

Exit(p, E) ==
    \/ proc_exit(p, E)
    \/ pto_before_shmem_exit(p)
    \/ exit_lock(p)

RStatsCall(p) ==
    \/ rstats_constructor(p)
    \/ rstats_add_call(p)
    \/ rstats_text_cast(p)
    \/ rstats_in_call(p)
    \/ rstats_recv_call(p)

PlanError(p, E) ==
    \/ plan_error(p, E)
    \/ prediction_walker(p)
    \/ planstate_tree_walker(p)
    \/ prediction_walker_node(p, E)
    \/ plan_error_return(p)
    \/ store_data_nodes(p)

\* Spec: NProcs backends work on the store at once; no allocation and no
\* file I/O fails, the server is not restarted.
EnvSpec == Env(QueryIds, {TRUE}, {"ok"})

Next ==
    \E p \in Procs :
        \/ Boot(p, EnvSpec)
        \/ Store(p, EnvSpec)
        \/ Scan(p)
        \/ Reset(p)
        \/ Flush(p, EnvSpec)
        \/ Exit(p, EnvSpec)

Spec == Init /\ [][Next]_vars

\* SpecSeq: one backend at a time over all NKeys queryIds, with clean
\* restarts of the server; nothing fails but what the code itself raises.
\* Statements come with one source text more than elsewhere, so that a key
\* is executed under a text other than the one stored with it.
EnvSeq == [Env(QueryIds, {TRUE}, {"ok"}) EXCEPT !.texts = 1..(NTexts + 1)]

NextSeq ==
    \/ Restart
    \/ \E p \in {1} :
        \/ Boot(p, EnvSeq)
        \/ Restore(p, EnvSeq)
        \/ RestoreFails(p)
        \/ Store(p, EnvSeq)
        \/ Scan(p)
        \/ Reset(p)
        \/ Flush(p, EnvSeq)
        \/ Exit(p, EnvSeq)

SpecSeq == Init /\ [][NextSeq]_vars

\* SpecAlloc: SpecSeq on one queryId fewer, where dsa_allocate0() can run out
\* of memory.
EnvAlloc == Env(1..(NKeys - 1), BOOLEAN, {"ok"})

NextAlloc ==
    \/ Restart
    \/ \E p \in {1} :
        \/ Boot(p, EnvAlloc)
        \/ Restore(p, EnvAlloc)
        \/ RestoreFails(p)
        \/ Store(p, EnvAlloc)
        \/ Scan(p)
        \/ Reset(p)
        \/ Flush(p, EnvAlloc)
        \/ Exit(p, EnvAlloc)

SpecAlloc == Init /\ [][NextAlloc]_vars

\* SpecIo: NProcs backends on one queryId, where the file I/O of a flush can
\* fail: PathNameOpenFile, FileWrite or FileSync, durable_rename.
EnvIo == Env({1}, {TRUE}, {"ok", "open", "write", "rename"})

NextIo ==
    \E p \in Procs :
        \/ Boot(p, EnvIo)
        \/ Store(p, EnvIo)
        \/ Scan(p)
        \/ Reset(p)
        \/ Flush(p, EnvIo)
        \/ flush_error(p)
        \/ Exit(p, EnvIo)

SpecIo == Init /\ [][NextIo]_vars

\* SpecIoFair: SpecIo in which every backend keeps being scheduled: a step
\* it can take again and again (a lock that keeps becoming free, LWLock
\* waiters being woken in queue order) is taken in the end.
StepIo(p) ==
    \/ Boot(p, EnvIo) \/ Store(p, EnvIo) \/ Scan(p) \/ Reset(p)
    \/ Flush(p, EnvIo) \/ flush_error(p) \/ Exit(p, EnvIo)

SpecIoFair == Init /\ [][NextIo]_vars /\ \A p \in Procs : SF_vars(StepIo(p))

\* SpecRestore: the server starts over a file an earlier run left, intact
\* or damaged while the server was down, and the backends attach.
EnvRestore == Env({}, BOOLEAN, {"ok", "open"})

NextRestore ==
    \/ Corrupt
    \/ \E p \in Procs :
        \/ Boot(p, EnvRestore)
        \/ Restore(p, EnvRestore)
        \/ RestoreFails(p)

SpecRestore == InitRestore /\ [][NextRestore]_vars

\* SpecAttach: SpecRestore with backends that, once attached, run
\* statements, Scan, Reset and Flush while others are still attaching.
EnvAttach == Env({1}, {TRUE}, {"ok"})

NextAttach ==
    \/ Corrupt
    \/ \E p \in Procs :
        \/ Boot(p, EnvAttach)
        \/ Restore(p, EnvAttach)
        \/ RestoreFails(p)
        \/ Store(p, EnvAttach)
        \/ Scan(p)
        \/ Reset(p)
        \/ Flush(p, EnvAttach)

SpecAttach == InitRestore /\ [][NextAttach]_vars

\* SpecTrack: one backend runs statements under every setting of track_mode
\* and log_min_error, with and without a queryId, with every outcome of
\* plan_error() and of the executor's timing; nothing fails.
EnvTrack ==
    [Env({0} \cup QueryIds, {TRUE}, {"ok"}) EXCEPT !.execs = Executions]

NextTrack ==
    \E p \in {1} :
        \/ Boot(p, EnvTrack)
        \/ Store(p, EnvTrack)

SpecTrack == Init /\ [][NextTrack]_vars

\* SpecPlan: plan_error() as a function of its inputs: one backend assesses
\* a plan of up to MaxPlanNodes nodes, each node with every combination of
\* counters, timing, estimate, tag and workers.
EnvPlan ==
    [max_nodes |-> MaxPlanNodes,
     nodes |-> {Uninstrumented, NeverExecuted} \cup SerialNodes \cup ParallelNodes,
     totaltimes |-> {10, 20}, totalcosts |-> {0, 100}, leader |-> BOOLEAN]

NextPlan == \E p \in {1} : PlanError(p, EnvPlan)

SpecPlan == Init /\ [][NextPlan]_vars

\* SpecWalk: the walk over every plan state tree of up to MaxNodes nodes,
\* a node being uninstrumented, never executed or the S1 leaf; a step the
\* backend can take, it takes in the end.
EnvWalk ==
    [max_nodes |-> MaxNodes,
     nodes |-> {Uninstrumented, NeverExecuted, Leaf},
     totaltimes |-> {10}, totalcosts |-> {100}, leader |-> {TRUE}]

NextWalk == \E p \in {1} : PlanError(p, EnvWalk)

SpecWalk ==
    /\ Init /\ [][NextWalk]_vars
    /\ \A p \in {1} :
          /\ WF_vars(prediction_walker(p))
          /\ WF_vars(planstate_tree_walker(p))
          /\ WF_vars(prediction_walker_node(p, EnvWalk))
          /\ WF_vars(plan_error_return(p))

\* SpecRStats: the functions of the RStats type: one backend makes a
\* datum with a constructor and folds up to MaxAdds values into it, or reads
\* one from a string or a message, and casts it to text and back.
NextRStats == \E p \in {1} : RStatsCall(p)

SpecRStats == Init /\ [][NextRStats]_vars

(* ----------------------------- properties ----------------------------- *)

\* No handler is in progress in any backend.
Quiescent == \A p \in Procs : pc[p] = "idle"

\* The table a file's records describe.
TableOf(f) ==
    [k \in {f.recs[i].queryId : i \in 1..Len(f.recs)} |->
        LET i == CHOOSE j \in 1..Len(f.recs) : f.recs[j].queryId = k
        IN  EntryOf(f.recs[i])]

\* to_init_shmem() has run _load_hash_table_safe() and not yet left
\* GetNamedDSMSegment().
InitEnded(p) == pc[p] \in {"init_ret", "init_throw"}

\* A file that a restore must refuse with an ERROR: too short, wrong magic
\* or format version, or, written by this host's version, cut before its
\* end, with an invalid or repeated key, or with more records than capacity.
HardFailure(f) ==
    \/ f.len < 3
    \/ f.magic # DATA_FILE_HEADER
    \/ f.fmtver # DATA_FORMAT_VERSION
    \/ /\ f.verstr = DATA_PG_VERSION_STR
       /\ \/ f.len < FileItems(f)
          \/ Len(f.recs) > hashtable_elements_max
          \/ \E i \in 1..Len(f.recs) :
                f.recs[i].queryId = 0 \/ f.recs[i].dbOid = InvalidOid
          \/ \E i, j \in 1..Len(f.recs) :
                i # j /\ f.recs[i].queryId = f.recs[j].queryId

\* A backend is writing the temporary file.
FlushWrites(q) == pc[q] = "f_walk"

\* C1: htab_counter never exceeds capacity, whatever Upserts run, one after
\* the other or at once.
C1_CounterWithinCapacity == htab_counter <= hashtable_elements_max

\* C2: an Upsert of a key the store does not hold, issued when htab_counter
\* equals capacity, does not get past the capacity guard.
C2_FullStoreRejectsNewKey ==
    [][\A p \in Procs :
          (pc[p] = "exec_end" /\ pc'[p] = "u_find"
              /\ ctx'[p].queryId \notin DOMAIN htab)
          => htab_counter # hashtable_elements_max]_vars

\* C3: whenever no handler is in progress, htab_counter is the number of
\* entries of the table (so it has not wrapped below zero).
C3_CounterIsEntryCount ==
    Quiescent => htab_counter = Cardinality(DOMAIN htab)

\* C4: the file a Flush has put in place holds the table; an Init that
\* restores from the file ends with exactly the file's entries in the table
\* and with htab_counter their number.
C4_RoundTrip ==
    \A p \in Procs :
        /\ pc[p] = "f_ret" /\ tmp = NoFile
              => file.exists /\ TableOf(file) = htab
        /\ InitEnded(p) /\ file.exists
              => /\ htab = TableOf(file)
                 /\ htab_counter = Len(file.recs)

\* C5: when the restore has not loaded the file, or the file is not one a
\* restore can load, Init ends with a valid, empty table and arena and with
\* htab_counter and need_syncing both 0.
C5_FailedRestoreLeavesEmptyStore ==
    \A p \in Procs :
        InitEnded(p) /\ file.exists
            /\ (res[p] # "loaded" \/ ~FileIntact(file)
                   \/ Len(file.recs) > hashtable_elements_max)
        => /\ registered /\ local[p].htab /\ local[p].htab_dsa
           /\ htab = EmptyTab
           /\ dsa_live = 0
           /\ htab_counter = 0
           /\ need_syncing = 0

\* C5 witness: a restore that had inserted records raised, and the table is
\* empty again.
C5_Witness ==
    \E p \in Procs : pc[p] = "init_throw" /\ cnt[p] >= 1 /\ htab = EmptyTab

C7_FlushAllOrNothing ==
    \A p \in Procs :
        /\ pc[p] = "f_err" => tmp = NoFile
        /\ pc[p] = "f_ret" => tmp = NoFile /\ file.exists

\* C8 (as the specification states it): need_syncing goes from 1 to 0 only
\* in or after the step that renames the complete temporary file into place.
C8_ClearedAfterRename ==
    [][need_syncing = 1 /\ need_syncing' = 0
          => \E p \in Procs :
                /\ pc[p] = "f_ret" \/ pc'[p] = "f_ret"
                /\ tmp' = NoFile
                /\ file'.exists]_vars

\* C8 (as the code has it): need_syncing goes from 1 to 0 only in the step in which a
\* Flush's caller takes the free coarse lock, before the temporary file is
\* opened and with both files untouched; no later step of a flush, normal
\* or raising, writes need_syncing.
C8_ClearedBeforeOpen ==
    [][/\ need_syncing = 1 /\ need_syncing' = 0
          => \E p \in Procs :
                /\ pc[p] \in {"idle", "r_lock", "x_lock"}
                /\ pc'[p] = "f_open"
                /\ lock = 0 /\ lock' = p
                /\ disk' = disk
       /\ \A p \in Procs :
             pc[p] \in {"f_open", "f_walk", "f_ret", "f_err"}
                /\ (pc'[p] # pc[p] \/ part'[p] # part[p])
             => need_syncing' = need_syncing]_vars

\* C8 witness: a flush raised, the table's entries are in no file, and
\* need_syncing is 0.
C8_Witness ==
    \E p \in Procs :
        pc[p] = "f_err" /\ need_syncing = 0 /\ htab # EmptyTab /\ ~file.exists

C11_ResetLeavesEmptyFile ==
    [][\A p \in Procs :
          op[p] = "reset" /\ pc[p] \in {"r_walk", "f_ret"}
             /\ pc'[p] = "idle" /\ registered'
          => file'.exists /\ Len(file'.recs) = 0]_vars

\* C12: during a Reset's walk the local counter grows by the number of
\* entries that leave the table, and when a Reset running alone has ended
\* its walk the table is empty and htab_counter is 0.
C12_ResetRemovesAll ==
    [][\A p \in Procs :
          /\ pc[p] = "r_walk" /\ registered'
                => cnt'[p] - cnt[p]
                      = Cardinality(DOMAIN htab) - Cardinality(DOMAIN htab')
          /\ pc[p] = "r_walk" /\ pc'[p] \in {"r_lock", "idle"} /\ registered'
                => htab' = EmptyTab /\ htab_counter' = 0]_vars

\* The partition whose lock p's next step has to take, -1 if none.
WantsPart(p) ==
    CASE pc[p] = "u_find" -> PartOf(ctx[p].queryId)
      [] pc[p] \in {"s_walk", "f_walk"} /\ part[p] < NParts - 1 -> part[p] + 1
      [] pc[p] = "r_walk" /\ part[p] < NParts - 1
            /\ (part[p] < 0 \/ KeysIn(htab, part[p]) = {}) -> part[p] + 1
      [] OTHER -> -1

\* p's next step has to take a lock that q holds in a conflicting mode.
Waits(p, q) ==
    \/ pc[p] \in {"r_lock", "x_lock"} /\ lock = q
    \/ /\ WantsPart(p) >= 0
       /\ \/ plock[WantsPart(p)].excl = q
          \/ pc[p] \in {"u_find", "r_walk"} /\ q \in plock[WantsPart(p)].shared

\* In no set of backends does every one wait for a lock that another one
\* of the set (or itself) holds, and a backend inside a handler that waits
\* for nobody can take its next step.
NoWaitCycle ==
    /\ \A S \in SUBSET Procs \ {{}} :
          \E p \in S : \A q \in S : ~Waits(p, q)
    /\ \A p \in Procs :
          pc[p] # "idle" /\ (\A q \in Procs : ~Waits(p, q)) => ENABLED StepIo(p)

\* p waits for the exclusive lock of a partition that backends hold in
\* shared mode.  An LWLock admits a new shared holder while an exclusive
\* request waits, so holders that overlap can keep p waiting.
ExclWaits(p) ==
    /\ pc[p] \in {"u_find", "r_walk"} /\ WantsPart(p) >= 0
    /\ plock[WantsPart(p)].shared # {}

\* C13: the coarse lock and the partition locks never deadlock, whatever
\* the interleaving of Upsert, Scan, Reset, Flush and the exit hook and
\* whether or not a Flush fails, and every operation a backend has started
\* comes to its end under fair scheduling: every backend keeps being
\* scheduled and none is kept for ever behind the shared holders of the
\* partition it wants exclusively.
C13_NoDeadlock ==
    /\ []NoWaitCycle
    /\ \A p \in Procs :
          ([]<>~ExclWaits(p)) => ((pc[p] # "idle") ~> (pc[p] = "idle"))

\* C13 witness: a Flush that holds the coarse lock and a partition lock
\* waits for the next partition, which another backend holds.
C13_Witness ==
    \E p, q \in Procs :
        Waits(p, q) /\ lock = p /\ part[p] >= 0

\* Backend p returns from an Upsert of key k with success in this step:
\* it found the entry, or it had inserted it and now ends store_data().
UpsertSucceeds(p, k) ==
    /\ op[p] = "store" /\ ctx[p].queryId = k /\ pc'[p] = "idle"
    /\ \/ pc[p] = "u_sync"
       \/ pc[p] = "u_find" /\ k \in DOMAIN htab /\ ~AccumulateRaises(htab[k], ctx[p])

\* C14: from the creation of an entry to its deletion its nexecs is the
\* number of Upserts of its key that returned success: it is 0 when an
\* Upsert inserts the entry, grows by exactly one in a step in which an Upsert of the
\* key returns success, and changes in no other step.
C14_NexecsCountsUpserts ==
    [][\A k \in QueryIds :
          /\ k \notin DOMAIN htab /\ k \in DOMAIN htab'
                /\ (\E p \in Procs : pc[p] = "u_find" /\ pc'[p] # "u_find")
                => htab'[k].nexecs = 0
          /\ k \in DOMAIN htab /\ k \in DOMAIN htab' /\ registered'
                => htab'[k].nexecs - htab[k].nexecs
                      = Cardinality({p \in Procs : UpsertSucceeds(p, k)})]_vars

\* C15: every entry that Scan, Flush or Reset can reach (its partition is
\* not locked by an Upsert at work on it) has a non-zero tenant id and
\* fingerprint, a valid query-text handle and nexecs of at least 1.
C15_EntriesComplete ==
    \A k \in DOMAIN htab :
        (\A p \in Procs : ~(op[p] = "store" /\ plock[PartOf(k)].excl = p))
            => /\ MyDatabaseId # InvalidOid /\ k # 0
               /\ DsaPointerIsValid(htab[k])
               /\ htab[k].nexecs >= 1

\* C16: however many backends attach at once, Init with its Restore is run
\* by one of them, once in the life of the region and starting from an
\* empty table: a backend starts Init only on a region that does not exist
\* yet, the region once created stays, while Init runs no other backend is
\* attached, and a backend that attaches without running Init takes the
\* published handles as they are.
C16_InitOnce ==
    /\ [](\A p, q \in Procs : op[p] = "init" /\ q # p => ~local[q].htab)
    /\ [][/\ registered => registered'
          /\ \A p \in Procs :
                /\ op[p] # "init" /\ op'[p] = "init"
                      => /\ ~registered
                         /\ htab' = EmptyTab /\ htab_counter' = 0
                /\ ~local[p].htab /\ local'[p].htab /\ op'[p] # "init"
                      => registered /\ UNCHANGED shmem]_vars

\* C16 witness: Init restored a table from the file and every backend is
\* attached to it, the other ones after Init was over.
C16_Witness ==
    /\ registered /\ reglock = 0
    /\ htab # EmptyTab
    /\ \A p \in Procs : local[p].htab /\ pc[p] = "idle"

\* C17: a disabled session upserts no execution; a normal one only an
\* execution whose avg_error is at least log_min_error; a forced one every
\* execution whose plan ran and was timed and that has a queryId, unless the
\* store is at its capacity.  An execution that passes is inserted or folded by the next
\* step, and no entry changes but by an execution that passed.
C17_ModeGating ==
    [][/\ \A p \in Procs :
            pc[p] = "exec_end" /\ pc'[p] # "exec_end" =>
               LET c == ctx[p] IN
               /\ c.track_mode = "disabled" => pc'[p] # "u_find"
               /\ c.track_mode = "normal" /\ pc'[p] = "u_find"
                     => c.avg_error >= c.log_min_error
               /\ c.track_mode = "forced" /\ PlanExecuted(c) /\ c.queryId # 0
                     /\ htab_counter < hashtable_elements_max
                     => pc'[p] = "u_find"
       /\ \A p \in Procs :
            pc[p] = "u_find" /\ pc'[p] # "u_find" =>
               /\ ctx[p].queryId \in DOMAIN htab'
               /\ pc'[p] = "idle"
                     => htab'[ctx[p].queryId].nexecs = htab[ctx[p].queryId].nexecs + 1
       /\ \A k \in DOMAIN htab' :
            (k \notin DOMAIN htab \/ htab'[k] # htab[k])
               => \E p \in Procs : pc[p] \in {"u_find", "u_sync"} /\ ctx[p].queryId = k
      ]_vars

\* C17 witness: a forced session has inserted the entry of an execution
\* whose avg_error is below log_min_error.
C17_Witness ==
    \E p \in Procs :
        /\ pc[p] = "u_sync"
        /\ ctx[p].track_mode = "forced"
        /\ ctx[p].avg_error < ctx[p].log_min_error

\* C18: in every entry the RStats that are folded unconditionally (here
\* exec_time) have a count equal to nexecs, and an error RStats (here
\* avg_error) has as its count the number of successful Upserts of the key
\* whose value was not negative: it is 0 when an Upsert inserts the entry,
\* grows by one with each such Upsert and changes in no other step.
C18_CountsFollowUpserts ==
    [][\A k \in QueryIds :
          /\ k \in DOMAIN htab' /\ registered'
                => htab'[k].exec_time.count = htab'[k].nexecs
          /\ k \notin DOMAIN htab /\ k \in DOMAIN htab'
                /\ (\E p \in Procs : pc[p] = "u_find" /\ pc'[p] # "u_find")
                => htab'[k].avg_error.count = 0
          /\ k \in DOMAIN htab /\ k \in DOMAIN htab' /\ registered'
                => htab'[k].avg_error.count - htab[k].avg_error.count
                      = Cardinality({p \in Procs : UpsertSucceeds(p, k)
                                                      /\ ctx[p].avg_error >= 0})]_vars

\* C20: the value a successful Upsert folds into the entry's exec_time is
\* the execution's total time in milliseconds, 1000 times the executor's
\* total in seconds.
C20_ExecTimeInMilliseconds ==
    [][\A p \in Procs, k \in QueryIds :
          UpsertSucceeds(p, k) /\ k \in DOMAIN htab /\ k \in DOMAIN htab'
             => htab'[k].exec_time
                   = rstats_add_value(htab[k].exec_time, 1000 * ctx[p].total)]_vars

\* The exit hook of backend p is inside its flush.
ExitFlushes(p) ==
    op[p] = "exit" /\ pc[p] \in {"f_open", "f_walk", "f_ret", "f_err"}

Walked(p) == pc[p] \in {"pw_walk", "pw_call", "pw_end", "pe_done"} /\ ctx[p].node.pstate # 0

\* The node the walker returned from last was assessed and has no workers.
SerialAssessed(p) ==
    /\ Walked(p)
    /\ ctx[p].node.assessed
    /\ ctx[p].node.in.worker_instrument = NoWorkers

\* The leaf of the S2 scenario.
FilteringLeaf(p) ==
    /\ SerialAssessed(p)
    /\ ctx[p].node.leaf
    /\ ctx[p].node.in.plan_rows = 100
    /\ ctx[p].node.in.ntuples = 10
    /\ ctx[p].node.in.nfiltered1 = 90
    /\ ctx[p].node.in.nfiltered2 = 0
    /\ ctx[p].node.in.ntuples2 = 0
    /\ ctx[p].node.in.nloops = 1

C22_ErrorsOrMinusOne ==
    /\ [](\A p \in Procs : pc[p] = "pe_done" =>
            LET c == ctx[p]
            IN  /\ (/\ c.avg_error = -Fx /\ c.rms_error = -Fx
                    /\ c.twa_error = -Fx /\ c.wca_error = -Fx) <=> c.nnodes = 0
                /\ c.nnodes > 0 =>
                       c.avg_error >= 0 /\ c.rms_error >= 0 /\ c.twa_error >= 0
                /\ c.max_jf_factor >= 0
                /\ c.max_lf_factor >= 0
                /\ c.worst_splan_factor >= 0)
    /\ [][\A p \in Procs :
            pc[p] = "pw_walk" /\ Len(ctx'[p].stack) < Len(ctx[p].stack) =>
                ctx'[p].nnodes =
                    ctx[p].nnodes + IF Contributes(ctx'[p].node.in) THEN 1 ELSE 0]_vars

\* plan_error() has returned from a plan of two nodes of which one
\* contributed, with errors and a scan-filter factor above 0.
C22_Witness ==
    \E p \in Procs :
        /\ pc[p] = "pe_done"
        /\ Len(ctx[p].planstate) = 2
        /\ ctx[p].nnodes = 1
        /\ ctx[p].avg_error > 0 /\ ctx[p].rms_error > 0 /\ ctx[p].twa_error > 0
        /\ ctx[p].max_lf_factor > 0

\* C23: every walk ends; when it has ended every node of the tree has been
\* the argument of exactly one call of the walker and the counter is the
\* number of nodes of the tree.
C23_WalkCountsNodes ==
    /\ [](\A p \in Procs : pc[p] \in {"pw_end", "pe_done"} =>
            /\ ctx[p].counter = Len(ctx[p].planstate)
            /\ \A i \in 1..Len(ctx[p].planstate) : ctx[p].visits[i] = 1)
    /\ \A p \in Procs : (pc[p] = "pw_call") ~> (pc[p] = "pe_done")

\* A walk over a tree of MaxNodes nodes with a subPlan and a node below a
\* child of the root has ended.
C23_Witness ==
    \E p \in Procs :
        /\ pc[p] = "pe_done"
        /\ Len(ctx[p].planstate) = MaxNodes
        /\ ctx[p].counter = MaxNodes
        /\ \E i, j \in 1..MaxNodes :
              /\ ctx[p].planstate[i].kind = "subPlan"
              /\ ctx[p].planstate[j].parent > 1

RECURSIVE SumOf(_)
\* The sum of a sequence of integers.
SumOf(xs) == IF xs = <<>> THEN 0 ELSE xs[1] + SumOf(Tail(xs))

RECURSIVE SquaredDeviations(_, _)
\* The sum over xs of (x - mean)^2, a rational.
SquaredDeviations(xs, mean) ==
    IF xs = <<>> THEN Zero
    ELSE RAdd(RMul(RSub(<<xs[1], 1>>, mean), RSub(<<xs[1], 1>>, mean)),
              SquaredDeviations(Tail(xs), mean))

\* The datum of backend p was made by constructor `from` and is a value.
Folded_from(p, from) ==
    pc[p] = "rstats" /\ ctx[p].from = from /\ ~ctx[p].error

\* C24: folding x_0..x_(n-1) into the empty RStats gives count = n, min and
\* max the smallest and the largest x_i, mean = (sum of x_i) / n and
\* m2 = sum of (x_i - mean)^2, exactly; folding 1,2,3,4,5 gives count 5,
\* mean 3, min 1, max 5, m2 10 and variance 5/2; one value folded into the
\* empty RStats gives the RStats made from that value.
C24_FoldIsExact ==
    \A p \in Procs : Folded_from(p, "empty") =>
        LET xs == ctx[p].xs
            n == Len(xs)
            s == ctx[p].s
        IN  /\ s.count = n
            /\ n = 0 => s = rstats_empty_constructor
            /\ n > 0 =>
                 /\ \E i \in 1..n : s.min = <<xs[i], 1>>
                 /\ \E i \in 1..n : s.max = <<xs[i], 1>>
                 /\ \A i \in 1..n : s.min[1] <= xs[i] /\ xs[i] <= s.max[1]
                 /\ s.mean = Rat(SumOf(xs), n)
                 /\ s.m2 = SquaredDeviations(xs, s.mean)
            /\ n = 1 => s = rstats_init_internal(<<xs[1], 1>>)
            /\ xs = <<1, 2, 3, 4, 5>> =>
                 /\ s = [count |-> 5, mean |-> <<3, 1>>, m2 |-> <<10, 1>>,
                         min |-> <<1, 1>>, max |-> <<5, 1>>]
                 /\ variance(s) = <<5, 2>>

\* 1,2,3,4,5 have been folded into the empty RStats.
C24_Witness ==
    \E p \in Procs :
        /\ Folded_from(p, "empty")
        /\ ctx[p].xs = <<1, 2, 3, 4, 5>>
        /\ ctx[p].s.m2 = <<10, 1>>

InvalidRStats(s) ==
    \/ NonCanonicalEmpty(s)
    \/ RLess(s.m2, Zero)
    \/ s.count > 0 /\ RLess(s.max, s.min)

\* A text form that names such a value.
InvalidStr(str) ==
    \/ str.count = 0 /\ \E f \in {str.mean, str.min, str.max, str.variance} : f[1] # 0
    \/ str.variance[1] < 0
    \/ str.count > 0 /\ RLess(Scanned(str.max), Scanned(str.min))

\* C26: rstats_in() and rstats_recv() raise an error on every input with
\* count = 0 and a non-zero field, with a negative variance (m2), or with
\* count > 0 and min > max, and neither returns such a value.
C26_InputsValidated ==
    \A p \in Procs :
        pc[p] = "rstats" /\ ctx[p].from \in {"in", "recv"} =>
            /\ ~ctx[p].error => ~InvalidRStats(ctx[p].s)
            /\ ctx[p].from = "in" /\ ctx[p].str.wellformed /\ InvalidStr(ctx[p].str)
                   => ctx[p].error
            /\ ctx[p].from = "recv" /\ InvalidRStats(ctx[p].buf) => ctx[p].error

\* The text path alone: rstats_in() raises on every such text and returns
\* no such value.
C26_TextInputValidated ==
    \A p \in Procs :
        pc[p] = "rstats" /\ ctx[p].from = "in" =>
            /\ ~ctx[p].error => ~InvalidRStats(ctx[p].s)
            /\ ctx[p].str.wellformed /\ InvalidStr(ctx[p].str) => ctx[p].error

\* C27: for every RStats s made by folding values, rstats_in() of the text
\* rstats_out() makes of s returns a value with the same count, mean, m2,
\* min and max as s.
C27_TextRoundTrip ==
    \A p \in Procs :
        /\ Folded_from(p, "empty") \/ Folded_from(p, "value")
        /\ ctx[p].out.wellformed
        => /\ ~ctx[p].back.error
           /\ rstats_eq(ctx[p].back.s, ctx[p].s)

\* The text round trip over the values whose mean and variance have at
\* most TextDigits significant digits: these come back the same.
C27_ShortNumbersRoundTrip ==
    \A p \in Procs :
        /\ Folded_from(p, "empty") \/ Folded_from(p, "value")
        /\ ctx[p].out.wellformed
        /\ Scanned(ctx[p].out.mean) = ctx[p].s.mean
        /\ Scanned(ctx[p].out.variance) = variance(ctx[p].s)
        => /\ ~ctx[p].back.error
           /\ rstats_eq(ctx[p].back.s, ctx[p].s)

\* The record of key k is in the file.
InFile(k) ==
    file.exists /\ \E i \in 1..Len(file.recs) : file.recs[i].queryId = k

\* An insert of key k has put the entry in the table and has not yet set
\* need_syncing.
Inserting(k) ==
    \E q \in Procs : pc[q] = "u_sync" /\ ctx[q].queryId = k

\* C28: an insert of a new key can run while a Flush does; once the Flush
\* has written its file and the insert has ended, the key's record is in
\* the file or need_syncing is 1; this stays so until the next Flush
\* clears need_syncing.
C28_InsertReachesAFlush ==
    (\E p \in Procs : pc[p] \in {"f_open", "f_walk"})
    \/ need_syncing = 1
    \/ \A k \in DOMAIN htab : InFile(k) \/ Inserting(k)

\* A Flush called by to_flush() has written its file, a key inserted
\* meanwhile is not in it, and need_syncing, which the Flush cleared, is 1.
C28_Witness ==
    \E p \in Procs :
        /\ pc[p] = "f_ret" /\ op[p] = "flush"
        /\ need_syncing = 1
        /\ \E k \in DOMAIN htab : ~InFile(k) /\ ~Inserting(k)

\* store_data() is called for backend p's execution and returns false: the
\* threshold of the mode is not met, or the store is full.
StoreDataRejects(p) ==
    /\ pc[p] = "exec_end"
    /\ track_optimizer_enabled(ctx[p].track_mode, ctx[p].log_min_error)
    /\ ctx[p].queryId # 0 /\ ctx[p].total > 0
    /\ \/ ~(ctx[p].avg_error >= ctx[p].log_min_error \/ ctx[p].track_mode = "forced")
       \/ local[p].shared /\ StoreIsFull(htab_counter)

\* C29: an Upsert that is rejected, because the threshold of the mode is
\* not met or because the store is full, ends at once and leaves the keys
\* of the table, the fields of every entry, htab_counter and need_syncing
\* as they were, whether its key is in the table or not.
C29_RejectedUpsertChangesNothing ==
    [][\A p \in Procs :
          StoreDataRejects(p) /\ pc'[p] # pc[p]
             => /\ pc'[p] = "idle"
                /\ htab' = htab
                /\ htab_counter' = htab_counter
                /\ need_syncing' = need_syncing
                /\ registered' = registered /\ dsa_live' = dsa_live]_vars

\* store_data() is about to reject, because the store is full, the Upsert
\* of a key that is in the table.
C29_Witness ==
    \E p \in Procs :
        /\ StoreDataRejects(p)
        /\ StoreIsFull(htab_counter)
        /\ ctx[p].avg_error >= ctx[p].log_min_error
        /\ ctx[p].queryId \in DOMAIN htab

\* C30: an Upsert of a key that is in the table changes the fields of that
\* key's entry and nothing else: htab_counter, need_syncing, the keys and
\* every other entry stay as they were, and the entry keeps its query text
\* and counts one more execution; need_syncing goes from 0 to 1 only in the
\* step in which the Upsert of a new key ends.
C30_UpsertOfPresentKey ==
    [][/\ \A p \in Procs :
            pc[p] = "u_find" /\ pc'[p] # "u_find" /\ ctx[p].queryId \in DOMAIN htab
               => LET k == ctx[p].queryId
                  IN  /\ htab_counter' = htab_counter
                      /\ need_syncing' = need_syncing
                      /\ DOMAIN htab' = DOMAIN htab
                      /\ \A j \in DOMAIN htab \ {k} : htab'[j] = htab[j]
                      /\ htab'[k].query = htab[k].query
                      /\ htab'[k].nexecs = htab[k].nexecs + 1
       /\ need_syncing = 0 /\ need_syncing' = 1
            => \E p \in Procs :
                  /\ pc[p] = "u_sync" /\ pc'[p] = "idle"
                  /\ htab[ctx[p].queryId].nexecs = 0]_vars

\* A key that is in the file has been upserted again since the Flush, its
\* entry counts one execution more than its record, another entry is in
\* the table, and need_syncing is 0.
C30_Witness ==
    /\ need_syncing = 0
    /\ Quiescent
    /\ Cardinality(DOMAIN htab) >= 2
    /\ \E k \in DOMAIN htab :
          /\ InFile(k)
          /\ htab[k].nexecs = TableOf(file)[k].nexecs + 1

\* Backend p is in the step of reset_htab()'s loop that frees a text and
\* deletes its entry.
ResetDeletes(p) == pc[p] = "r_walk" /\ cnt'[p] = cnt[p] + 1

\* The store as a whole is created anew: by Init, by the catch block of a
\* failed Restore, or by a restart of the server.
StoreRecreated ==
    \/ ~registered \/ ~registered'
    \/ \E p \in Procs : op[p] = "init"

\* C31: the query text of an entry is the source text of the Upsert that
\* inserted it; no later step, an Upsert of the key under another text
\* included, changes the text or allocates or frees one for the entry, and
\* as long as the store lives only Reset's loop frees a text and deletes
\* an entry.
C31_QueryTextFixed ==
    [][/\ \A k \in DOMAIN htab \cap DOMAIN htab' :
             htab'[k].query = htab[k].query
       /\ \A p \in Procs :
             pc[p] = "u_find" /\ pc'[p] # "u_find" =>
                IF ctx[p].queryId \in DOMAIN htab
                THEN dsa_live' = dsa_live
                ELSE /\ htab'[ctx[p].queryId].query = ctx[p].text
                     /\ dsa_live' = dsa_live + 1
       /\ \A p \in Procs :
             pc[p] = "u_sync" /\ pc'[p] # "u_sync" => dsa_live' = dsa_live
       /\ (dsa_live' < dsa_live \/ DOMAIN htab \ DOMAIN htab' # {})
             /\ ~StoreRecreated
             => \E p \in Procs : ResetDeletes(p)]_vars

\* An Upsert that carries another source text than the one stored has
\* found its key's entry.
C31_Witness ==
    \E p \in Procs :
        /\ pc[p] = "u_find"
        /\ ctx[p].queryId \in DOMAIN htab
        /\ DsaPointerIsValid(htab[ctx[p].queryId])
        /\ ctx[p].text # htab[ctx[p].queryId].query

InFlush(p) == pc[p] \in {"f_open", "f_walk", "f_ret", "f_err"}

\* C33: a backend that is in _flush_hash_table(), called from to_flush(),
\* from reset_htab() or from the exit hook, holds the coarse lock
\* exclusively, from before the temporary file is opened until after the
\* rename; so at most one backend is in it, and only the holder of the
\* lock writes a file.
C33_OneFlushWriter ==
    /\ [](\A p \in Procs : InFlush(p) => lock = p)
    /\ [](Cardinality({p \in Procs : InFlush(p)}) <= 1)
    /\ [][disk' # disk =>
            \E p \in Procs :
               /\ InFlush(p) /\ lock = p
               /\ pc'[p] # pc[p] \/ part'[p] # part[p]]_vars

\* A backend writes the temporary file while another one, in Reset or in
\* the exit hook, waits for the coarse lock to flush.
C33_Witness ==
    \E p, q \in Procs :
        /\ pc[p] = "f_walk" /\ tmp.exists
        /\ pc[q] \in {"r_lock", "x_lock"}

\* C34: while a backend runs Init, with its Restore, no other backend is
\* attached or inside an operation, and the table changes only in the steps
\* of Init; Init hands the table over, by its return or by its ERROR, either
\* empty or holding every record of a file whose record count and checksum
\* it has found right.  So no Upsert, Scan, Flush or Reset of another backend
\* meets a table that Restore has filled in part or has not validated.
C34_RestoreIsNotObserved ==
    /\ [](\A p, q \in Procs :
            op[p] = "init" /\ q # p
               => ~local[q].htab /\ pc[q] = "idle" /\ op[q] = "none")
    /\ [][\A p \in Procs :
            /\ op[p] = "init" /\ op'[p] = "init" /\ htab' # htab
                  => pc[p] \in {"load_rec", "load_tail", "load_error"}
            /\ op[p] = "init" /\ op'[p] # "init"
                  => \/ htab' = EmptyTab /\ htab_counter' = 0
                     \/ /\ pc[p] = "init_ret"
                        /\ file.nrecs = Len(file.recs)
                        /\ file.crc = Crc32c(file)
                        /\ htab' = TableOf(file)
                        /\ htab_counter' = Len(file.recs)]_vars

\* Restore has put a record in the table of a file whose record count it
\* will find wrong.
C34_Witness ==
    \E p \in Procs :
        /\ op[p] = "init" /\ pc[p] \in {"load_rec", "load_tail"}
        /\ htab # EmptyTab
        /\ file.nrecs # Len(file.recs)

\* Init has ended over a file that holds more records than capacity.
EndedOverLargeFile(p) ==
    InitEnded(p) /\ file.exists /\ Len(file.recs) > hashtable_elements_max

\* C35 (as the specification states it): Restore never has more than
\* capacity entries in the table, and over a file that holds more records
\* than capacity it fails with an error and leaves the table empty and
\* htab_counter 0.
C35_LargeFileRaises ==
    \A p \in Procs :
        /\ op[p] = "init" => Cardinality(DOMAIN htab) <= hashtable_elements_max
        /\ EndedOverLargeFile(p)
              => /\ pc[p] = "init_throw"
                 /\ htab = EmptyTab /\ htab_counter = 0

\* C35 (as the code has it): Restore never has more than capacity entries
\* in the table; over a file that holds more records than capacity it
\* leaves the table empty and htab_counter 0, with an error unless the file
\* was written by another host version, which it skips with a warning
\* before it reads a record.
C35_LargeFileNotLoaded ==
    \A p \in Procs :
        /\ op[p] = "init" => Cardinality(DOMAIN htab) <= hashtable_elements_max
        /\ op[p] = "init" => cnt[p] <= hashtable_elements_max
        /\ EndedOverLargeFile(p)
              => /\ htab = EmptyTab /\ htab_counter = 0
                 /\ pc[p] = "init_throw" <=> res[p] # "skipped"
                 /\ res[p] = "skipped"
                       => /\ file.verstr = OTHER_PG_VERSION_STR
                          /\ file.magic = DATA_FILE_HEADER
                          /\ file.fmtver = DATA_FORMAT_VERSION

\* Restore raised at the record past capacity of a file that is intact,
\* after having loaded capacity records, and the table is empty again.
C35_Witness ==
    \E p \in Procs :
        /\ pc[p] = "init_throw"
        /\ FileIntact(file)
        /\ Len(file.recs) > hashtable_elements_max
        /\ cnt[p] = hashtable_elements_max
        /\ htab = EmptyTab /\ htab_counter = 0

\* C36: during and after every walk the count of assessed nodes is at
\* least 0 and at most the count of visited nodes, and the entry of the
\* execution takes the two as they are: 0 <= evaluated_nodes <= plan_nodes.
C36_EvaluatedWithinVisited ==
    \A p \in Procs :
        /\ pc[p] \in {"pw_call", "pw_walk", "pw_end", "pe_done", "sd_nodes"}
              => 0 <= ctx[p].nnodes /\ ctx[p].nnodes <= ctx[p].counter
        /\ pc[p] = "sd_nodes"
              => /\ ctx[p].entry.evaluated_nodes = ctx[p].nnodes
                 /\ ctx[p].entry.plan_nodes = ctx[p].counter
                 /\ ctx[p].entry.plan_nodes = Len(ctx[p].planstate)
                 /\ 0 <= ctx[p].entry.evaluated_nodes
                 /\ ctx[p].entry.evaluated_nodes <= ctx[p].entry.plan_nodes

\* An entry has taken the counts of a plan of which one node was assessed
\* and one was not.
C36_Witness ==
    \E p \in Procs :
        /\ pc[p] = "sd_nodes"
        /\ ctx[p].entry.evaluated_nodes = 1
        /\ ctx[p].entry.plan_nodes = 2

\* C37: plan_error() is called with a strictly positive total time only.
\* An execution at ExecutorEnd that passes the tests before the call has a
\* positive total, the context plan_error() fills for it has a positive
\* totaltime as long as store_data() uses it, and an execution whose plan
\* never ran or whose total is zero leaves ExecutorEnd with the shared
\* state as it was.
C37_PlanErrorTimed ==
    /\ [](\A p \in Procs :
            /\ (pc[p] = "exec_end"
                  /\ track_optimizer_enabled(ctx[p].track_mode, ctx[p].log_min_error)
                  /\ ctx[p].queryId # 0
                  /\ PlanExecuted(ctx[p]))
                 => PlanEstimatorContext(ctx[p]).totaltime > 0
            /\ pc[p] \in {"u_find", "u_sync"} => ctx[p].totaltime > 0)
    /\ [][\A p \in Procs :
             (pc[p] = "exec_end" /\ pc'[p] # "exec_end"
               /\ (ctx[p].total = 0 \/ (~ctx[p].running /\ ctx[p].nloops = 0)))
              => pc'[p] = "idle" /\ shmem' = shmem]_vars

\* store_data() works on a normal-mode execution that passed the tests: its
\* context carries the executor's positive total.
C37_Witness ==
    \E p \in Procs :
        /\ pc[p] = "u_find"
        /\ ctx[p].totaltime = 1
        /\ ctx[p].track_mode = "normal"

\* C38: in every reachable state the free_slots status() reports is between
\* 0 and the capacity, and it is 0 when store_data() turns new keys away as
\* the store being full.
C38_FreeSlotsInRange ==
    /\ 0 <= pg_track_optimizer_status.free_slots
    /\ pg_track_optimizer_status.free_slots <= hashtable_elements_max
    /\ StoreIsFull(htab_counter) => pg_track_optimizer_status.free_slots = 0

\* C39: in every quiescent state there are as many live query-text
\* allocations as entries, and every entry holds a valid handle to the one
\* made at its insertion.
C39_OneTextPerEntry ==
    Quiescent =>
        /\ dsa_live = Cardinality(DOMAIN htab)
        /\ \A k \in DOMAIN htab : DsaPointerIsValid(htab[k])
=============================================================================
